---------------------------- MODULE Spec2Model ----------------------------
(***************************************************************************)
(* Landed-cost and multi-tier pricing engine (calculateEstimate) of the    *)
(* Profit-Calculator web app, with a caller that holds an input, invokes   *)
(* the engine and re-invokes it after editing product lines, and with     *)
(* callers whose invocations of the engine overlap.                        *)
(*                                                                         *)
(* Numbers.  The engine computes on JavaScript numbers.  The model         *)
(* computes on exact fractions <<n, d>> in lowest terms with d > 0,        *)
(* extended with the three non-finite values a division can produce:       *)
(* <<1, 0>> is Infinity, <<-1, 0>> is -Infinity and <<0, 0>> is NaN.       *)
(* Rounding of binary floating point is not modelled: every equality       *)
(* below is an equality of the exact values.                               *)
(***************************************************************************)
EXTENDS Integers, Sequences, FiniteSets, TLC

VARIABLES input, results, op, objects, frames,
          estimates, currentId, pending, reply

\* the record store, the requests being handled and the last response
storeVars == <<estimates, currentId, pending, reply>>

vars == <<input, results, op, objects, frames, estimates, currentId, pending, reply>>

\* new MemStorage(), no request received
StoreConstructed ==
    /\ estimates = <<>>
    /\ currentId = 1
    /\ pending = {}
    /\ reply = <<>>

-----------------------------------------------------------------------------
(* Bounds of the explored input space.                                     *)

MaxProducts == 2

MaxCost == 1

-----------------------------------------------------------------------------
(* Number arithmetic.                                                      *)

Abs(x) == IF x < 0 THEN -x ELSE x

Sign(x) == IF x > 0 THEN 1 ELSE IF x < 0 THEN -1 ELSE 0

RECURSIVE GCD(_, _)
GCD(a, b) == IF b = 0 THEN a ELSE GCD(b, a % b)

NaN == <<0, 0>>

Inf(s) == <<s, 0>>

IsFinite(x) == x[2] # 0

IsNaN(x) == x = NaN

\* the fraction n/d (d # 0) in lowest terms with a positive denominator
Norm(n, d) ==
    LET g == GCD(Abs(n), Abs(d))
        s == IF d < 0 THEN -1 ELSE 1
    IN  <<(s * n) \div g, (s * d) \div g>>

\* an integer-valued number
Num(n) == <<n, 1>>

Zero == Num(0)

NumSign(x) == Sign(x[1])

\* a + b
Add(a, b) ==
    IF IsFinite(a) /\ IsFinite(b)
    THEN Norm(a[1] * b[2] + b[1] * a[2], a[2] * b[2])
    ELSE IF IsNaN(a) \/ IsNaN(b) THEN NaN
    ELSE IF IsFinite(a) THEN b
    ELSE IF IsFinite(b) THEN a
    ELSE IF a = b THEN a ELSE NaN

Neg(a) == <<-a[1], a[2]>>

\* a - b
Sub(a, b) == Add(a, Neg(b))

\* a * b
Mul(a, b) ==
    IF IsFinite(a) /\ IsFinite(b)
    THEN Norm(a[1] * b[1], a[2] * b[2])
    ELSE IF IsNaN(a) \/ IsNaN(b) THEN NaN
    ELSE IF NumSign(a) * NumSign(b) = 0 THEN NaN
    ELSE Inf(NumSign(a) * NumSign(b))

\* a / b
Div(a, b) ==
    IF IsNaN(a) \/ IsNaN(b) THEN NaN
    ELSE IF IsFinite(a) /\ IsFinite(b)
    THEN IF b[1] # 0 THEN Norm(a[1] * b[2], a[2] * b[1])
         ELSE IF a[1] = 0 THEN NaN ELSE Inf(NumSign(a))
    ELSE IF IsFinite(a) THEN Zero
    ELSE IF IsFinite(b) THEN Inf(NumSign(a) * (IF b[1] < 0 THEN -1 ELSE 1))
    ELSE NaN

\* a > b (false when either is NaN)
Gt(a, b) ==
    IF IsNaN(a) \/ IsNaN(b) THEN FALSE
    ELSE IF IsFinite(a) /\ IsFinite(b) THEN a[1] * b[2] > b[1] * a[2]
    ELSE IF IsFinite(a) THEN b[1] < 0
    ELSE IF IsFinite(b) THEN a[1] > 0
    ELSE a[1] > b[1]

Hundred == Num(100)

One == Num(1)

-----------------------------------------------------------------------------
(* The pricing engine: calculateEstimate, stage by stage.                  *)

\* a filter that looks at the flag alone
IsIncluded_FlagOnly(p) == p.included

\* a filter that looks at the quantity alone
IsIncluded_QuantityOnly(p) == p.quantity > 0

\* the filter predicate of includedProducts
IsIncluded(p) == p.included /\ p.quantity > 0

includedProducts(products) == SelectSeq(products, IsIncluded)

\* product.quantity * product.unitPrice
lineValue(p) == Mul(Num(p.quantity), Num(p.unitPrice))

\* reduce((sum, product) => sum + quantity * unitPrice, 0), from element i on
RECURSIVE ReduceValue(_, _, _)
ReduceValue(seq, i, sum) ==
    IF i > Len(seq) THEN sum
    ELSE ReduceValue(seq, i + 1, Add(sum, lineValue(seq[i])))

rawMaterialsCost(inc) == ReduceValue(inc, 1, Zero)

otherCosts(inp) == Add(Num(inp.fumigationCost), Num(inp.customsClearanceCost))

\* a total that leaves the packing cost out
totalProcurementCost_NoPacking(raw, inp, other) ==
    Add(Add(raw, Num(inp.transportCost)), other)

totalProcurementCost(raw, inp, other) ==
    Add(Add(Add(raw, Num(inp.transportCost)), Num(inp.packingCost)), other)

totalProductValue(inc) == ReduceValue(inc, 1, Zero)

\* a weighted average whose weights are shares of quantity, not of value
RECURSIVE ReduceMargin_ByQuantity(_, _, _, _)
ReduceMargin_ByQuantity(seq, tpv, i, sum) ==
    IF i > Len(seq) THEN sum
    ELSE LET weight == Div(Num(seq[i].quantity), tpv)
         IN  ReduceMargin_ByQuantity(seq, tpv, i + 1,
                                     Add(sum, Mul(Num(seq[i].margin), weight)))

\* reduce((sum, product) => sum + margin * weight, 0), from element i on
RECURSIVE ReduceMargin(_, _, _, _)
ReduceMargin(seq, tpv, i, sum) ==
    IF i > Len(seq) THEN sum
    ELSE LET weight == Div(lineValue(seq[i]), tpv)
         IN  ReduceMargin(seq, tpv, i + 1,
                          Add(sum, Mul(Num(seq[i].margin), weight)))

\* the highest margin of the filtered lines instead of their weighted average
weightedMargin_Highest(inc, tpv) ==
    IF Gt(tpv, Zero)
    THEN Num(CHOOSE m \in {inc[i].margin : i \in 1..Len(inc)} :
                \A i \in 1..Len(inc) : inc[i].margin <= m)
    ELSE Zero

weightedMargin(inc, tpv) ==
    IF Gt(tpv, Zero) THEN ReduceMargin(inc, tpv, 1, Zero) ELSE Zero

\* a margin amount that takes the percentage as a factor
marginAmount_NotPerCent(tpc, wm) == Mul(tpc, wm)

marginAmount(tpc, wm) == Mul(tpc, Div(wm, Hundred))

invoiceValueBeforeDuty(tpc, ma) == Add(tpc, ma)

exportDutyAmount(ivbd, inp) == Mul(ivbd, Div(Num(inp.exportDutyRate), Hundred))

\* an invoice value the export duty is not added to
invoiceValue_WithoutDuty(ivbd, eda) == ivbd

invoiceValue(ivbd, eda) == Add(ivbd, eda)

otherLogisticsCosts(inp) ==
    Add(Num(inp.destinationCustomsClearance), Num(inp.destinationTransport))

\* a logistics total that leaves the import duty out
totalLogisticsCost_NoImportDuty(inp, olc) == Add(Num(inp.freightCost), olc)

totalLogisticsCost(inp, olc) ==
    Add(Add(Num(inp.freightCost), Num(inp.importDuty)), olc)

importerTotalCost(iv, tlc) == Add(iv, tlc)

\* a distributor price whose margin is cut off at 100 per cent
distributorPrice_Clamped(itc, inp) ==
    LET m == IF inp.distributorMargin > 100 THEN 100 ELSE inp.distributorMargin
    IN  Mul(itc, Add(One, Div(Num(m), Hundred)))

\* a distributor price that is the margin alone, not the cost marked up
distributorPrice_MarginOnly(itc, inp) ==
    Mul(itc, Div(Num(inp.distributorMargin), Hundred))

distributorPrice(itc, inp) ==
    Mul(itc, Add(One, Div(Num(inp.distributorMargin), Hundred)))

\* a retailer price whose margin is added to the distributor margin, both
\* taken on the importer total cost
retailerPrice_Additive(dp, inp) ==
    LET itc == Div(dp, Add(One, Div(Num(inp.distributorMargin), Hundred)))
    IN  Add(dp, Mul(itc, Div(Num(inp.retailerMargin), Hundred)))

retailerPrice(dp, inp) ==
    Mul(dp, Add(One, Div(Num(inp.retailerMargin), Hundred)))

\* a percentage guarded by the retailer price, not by the procurement cost
totalMarginPercentage_GuardOnPrice(rp, tpc) ==
    IF Gt(rp, Zero) THEN Mul(Div(Sub(rp, tpc), tpc), Hundred) ELSE Zero

\* a percentage computed without any guard on the procurement cost
totalMarginPercentage_Unguarded(rp, tpc) == Mul(Div(Sub(rp, tpc), tpc), Hundred)

totalMarginPercentage(rp, tpc) ==
    IF Gt(tpc, Zero) THEN Mul(Div(Sub(rp, tpc), tpc), Hundred) ELSE Zero

\* a share computed without the guard on the total product value
productShare_Unguarded(p, tpv) == Div(lineValue(p), tpv)

productShare(p, tpv) ==
    IF Gt(tpv, Zero) THEN Div(lineValue(p), tpv) ELSE Zero

\* an entry whose prices are the allocated totals, not divided by quantity
breakdownEntry_NotPerUnit(p, tpv, iv, dp, rp) ==
    LET share == productShare(p, tpv)
    IN  [name |-> p.name,
         quantity |-> p.quantity,
         unitCost |-> p.unitPrice,
         margin |-> p.margin,
         invoicePrice |-> Mul(iv, share),
         distributorPrice |-> Mul(dp, share),
         retailerPrice |-> Mul(rp, share)]

\* an entry whose invoice price is the line's own unit price marked up by the
\* line's own margin
breakdownEntry_OwnMargin(p, tpv, iv, dp, rp) ==
    LET share == productShare(p, tpv)
    IN  [name |-> p.name,
         quantity |-> p.quantity,
         unitCost |-> p.unitPrice,
         margin |-> p.margin,
         invoicePrice |-> Mul(Num(p.unitPrice),
                              Add(One, Div(Num(p.margin), Hundred))),
         distributorPrice |-> Div(Mul(dp, share), Num(p.quantity)),
         retailerPrice |-> Div(Mul(rp, share), Num(p.quantity))]

\* an entry whose unitCost is the value of the line, quantity * unitPrice
breakdownEntry_UnitCostIsLineValue(p, tpv, iv, dp, rp) ==
    LET share == productShare(p, tpv)
    IN  [name |-> p.name,
         quantity |-> p.quantity,
         unitCost |-> p.quantity * p.unitPrice,
         margin |-> p.margin,
         invoicePrice |-> Div(Mul(iv, share), Num(p.quantity)),
         distributorPrice |-> Div(Mul(dp, share), Num(p.quantity)),
         retailerPrice |-> Div(Mul(rp, share), Num(p.quantity))]

\* one element of includedProducts.map(...)
breakdownEntry(p, tpv, iv, dp, rp) ==
    LET share == productShare(p, tpv)
        allocatedInvoiceValue == Mul(iv, share)
        allocatedDistributorPrice == Mul(dp, share)
        allocatedRetailerPrice == Mul(rp, share)
    IN  [name |-> p.name,
         quantity |-> p.quantity,
         unitCost |-> p.unitPrice,
         margin |-> p.margin,
         invoicePrice |-> Div(allocatedInvoiceValue, Num(p.quantity)),
         distributorPrice |-> Div(allocatedDistributorPrice, Num(p.quantity)),
         retailerPrice |-> Div(allocatedRetailerPrice, Num(p.quantity))]

\* a breakdown listed from the last filtered line to the first
productBreakdown_Reversed(inc, tpv, iv, dp, rp) ==
    [i \in 1..Len(inc) |-> breakdownEntry(inc[Len(inc) + 1 - i], tpv, iv, dp, rp)]

productBreakdown(inc, tpv, iv, dp, rp) ==
    [i \in 1..Len(inc) |-> breakdownEntry(inc[i], tpv, iv, dp, rp)]

\* an import duty reported together with the freight
importDutyCost_WithFreight(inp) == Add(Num(inp.freightCost), Num(inp.importDuty))

\* importDutyCost: input.importDuty
importDutyCost(inp) == Num(inp.importDuty)

calculateEstimate(inp) ==
    LET inc == includedProducts(inp.products)
        raw == rawMaterialsCost(inc)
        other == otherCosts(inp)
        tpc == totalProcurementCost(raw, inp, other)
        tpv == totalProductValue(inc)
        wm == weightedMargin(inc, tpv)
        ma == marginAmount(tpc, wm)
        ivbd == invoiceValueBeforeDuty(tpc, ma)
        eda == exportDutyAmount(ivbd, inp)
        iv == invoiceValue(ivbd, eda)
        olc == otherLogisticsCosts(inp)
        tlc == totalLogisticsCost(inp, olc)
        itc == importerTotalCost(iv, tlc)
        dp == distributorPrice(itc, inp)
        rp == retailerPrice(dp, inp)
    IN  [rawMaterialsCost |-> raw,
         transportCost |-> Num(inp.transportCost),
         packingCost |-> Num(inp.packingCost),
         fumigationCost |-> Num(inp.fumigationCost),
         customsClearanceCost |-> Num(inp.customsClearanceCost),
         otherCosts |-> other,
         totalProcurementCost |-> tpc,
         marginAmount |-> ma,
         exportDutyAmount |-> eda,
         invoiceValue |-> iv,
         freightCost |-> Num(inp.freightCost),
         importDutyCost |-> importDutyCost(inp),
         destinationCustomsClearance |-> Num(inp.destinationCustomsClearance),
         destinationTransport |-> Num(inp.destinationTransport),
         otherLogisticsCosts |-> olc,
         totalLogisticsCost |-> tlc,
         importerTotalCost |-> itc,
         distributorPrice |-> dp,
         retailerPrice |-> rp,
         totalMarginPercentage |-> totalMarginPercentage(rp, tpc),
         productBreakdown |-> productBreakdown(inc, tpv, iv, dp, rp)]

-----------------------------------------------------------------------------
(* The inputs explored.  Two families of inputs are enumerated: one rich   *)
(* in product lines under a few cost configurations, one rich in cost and  *)
(* rate configurations under a few product lists.                          *)

\* GRAIN_PRODUCTS, by position
GRAIN_PRODUCTS == <<"Basmati Rice", "Finger Millet", "Red Lentils",
                    "Sunflower Oil", "Black Gram">>

Quantities == {-1, 0, 1, 2}

Prices == {0, 3}

Margins == {10, 150}

ExportDutyRates == {0, 50}

DistributorMargins == {0, 200}

RetailerMargins == {0, 25}

CostFields == {"transportCost", "packingCost", "fumigationCost",
               "customsClearanceCost", "freightCost", "importDuty",
               "destinationCustomsClearance", "destinationTransport"}

\* every cost 0
ZeroCosts == [f \in CostFields |-> 0]

\* every cost positive and no two costs equal
DistinctCosts ==
    [transportCost |-> 1, packingCost |-> 2, fumigationCost |-> 3,
     customsClearanceCost |-> 4, freightCost |-> 5, importDuty |-> 6,
     destinationCustomsClearance |-> 7, destinationTransport |-> 8]

\* at most one cost positive, of 1..MaxCost, and DistinctCosts
CostVectors ==
    {[ZeroCosts EXCEPT ![f] = v] : f \in CostFields, v \in 0..MaxCost}
        \cup {DistinctCosts}

Line(n, q, u, inc, m) ==
    [name |-> n, quantity |-> q, unitPrice |-> u, included |-> inc, margin |-> m]

\* a product line without its name: <<quantity, unitPrice, included, margin>>;
\* the lines that are both unchecked and of quantity <= 0 are left out
LineShapes ==
    {sh \in Quantities \X Prices \X BOOLEAN \X Margins : sh[3] \/ sh[1] > 0}

SampleShapes == {<<2, 1, TRUE, 10>>, <<1, 3, TRUE, 150>>, <<2, 3, FALSE, 150>>}

\* the product lists of at most MaxProducts lines of the given shapes, named
\* from the catalogue in order
ProductLists(shapes) ==
    UNION {{[i \in 1..n |-> Line(GRAIN_PRODUCTS[i], sh[i][1], sh[i][2], sh[i][3], sh[i][4])] :
                sh \in [1..n -> shapes]} : n \in 0..MaxProducts}

MakeInput(products, c, e, d, r) ==
    [products |-> products,
     transportCost |-> c["transportCost"],
     packingCost |-> c["packingCost"],
     fumigationCost |-> c["fumigationCost"],
     customsClearanceCost |-> c["customsClearanceCost"],
     exportDutyRate |-> e,
     freightCost |-> c["freightCost"],
     importDuty |-> c["importDuty"],
     destinationCustomsClearance |-> c["destinationCustomsClearance"],
     destinationTransport |-> c["destinationTransport"],
     distributorMargin |-> d,
     retailerMargin |-> r]

\* the cost and rate configurations of the product-rich family
Scenarios == {<<ZeroCosts, <<0, 0, 0>>>>, <<DistinctCosts, <<50, 200, 25>>>>}

ProductRichInput(inp) ==
    \E ps \in ProductLists(LineShapes), sc \in Scenarios :
        inp = MakeInput(ps, sc[1], sc[2][1], sc[2][2], sc[2][3])

CostRichInput(inp) ==
    \E ps \in ProductLists(SampleShapes), c \in CostVectors,
       e \in ExportDutyRates, d \in DistributorMargins, r \in RetailerMargins :
        inp = MakeInput(ps, c, e, d, r)

-----------------------------------------------------------------------------
(* The caller: it holds an input, invokes the engine on it, and may then   *)
(* add, remove or change one product line and invoke the engine again.     *)

\* the first catalogue name no line of ps carries
UnusedName(ps) ==
    LET used == {ps[i].name : i \in 1..Len(ps)}
        k == CHOOSE j \in 1..Len(GRAIN_PRODUCTS) :
                /\ GRAIN_PRODUCTS[j] \notin used
                /\ \A h \in 1..(j - 1) : GRAIN_PRODUCTS[h] \in used
    IN  GRAIN_PRODUCTS[k]

\* ps without element i
RemoveAt(ps, i) ==
    [j \in 1..(Len(ps) - 1) |-> IF j < i THEN ps[j] ELSE ps[j + 1]]

Init ==
    /\ ProductRichInput(input) \/ CostRichInput(input)
    /\ results = <<>>
    /\ op = "init"
    /\ objects = <<>>
    /\ frames = <<>>
    /\ StoreConstructed

\* results = calculateEstimate(input)
Calculate ==
    /\ op = "init"
    /\ results' = <<calculateEstimate(input)>>
    /\ op' = "calculate"
    /\ UNCHANGED <<input, objects, frames>>
    /\ UNCHANGED storeVars

\* a line of shape sh is appended and the engine is invoked again
AddLine(sh) ==
    /\ op = "calculate"
    /\ Len(input.products) < MaxProducts
    /\ LET p == Line(UnusedName(input.products), sh[1], sh[2], sh[3], sh[4])
       IN  input' = [input EXCEPT !.products = Append(@, p)]
    /\ results' = <<calculateEstimate(input')>>
    /\ op' = "add"
    /\ UNCHANGED <<objects, frames>>
    /\ UNCHANGED storeVars

\* line i is removed and the engine is invoked again
RemoveLine(i) ==
    /\ op = "calculate"
    /\ input' = [input EXCEPT !.products = RemoveAt(@, i)]
    /\ results' = <<calculateEstimate(input')>>
    /\ op' = "remove"
    /\ UNCHANGED <<objects, frames>>
    /\ UNCHANGED storeVars

\* the included flag of line i is flipped and the engine is invoked again
ToggleIncluded(i) ==
    /\ op = "calculate"
    /\ input' = [input EXCEPT !.products[i].included = ~@]
    /\ results' = <<calculateEstimate(input')>>
    /\ op' = "toggle"
    /\ UNCHANGED <<objects, frames>>
    /\ UNCHANGED storeVars

Next ==
    \/ Calculate
    \/ \E sh \in LineShapes : AddLine(sh)
    \/ \E i \in 1..Len(input.products) : RemoveLine(i)
    \/ \E i \in 1..Len(input.products) : ToggleIncluded(i)

Spec == Init /\ [][Next]_vars

-----------------------------------------------------------------------------
(* The caller that invokes the engine on an input and then again on the    *)
(* same input with its product lines in another order.                     *)

\* the lines are put in the order perm and the engine is invoked again
ReorderLines(perm) ==
    /\ op = "calculate"
    /\ input' = [input EXCEPT !.products = [i \in 1..Len(@) |-> @[perm[i]]]]
    /\ results' = <<calculateEstimate(input')>>
    /\ op' = "reorder"
    /\ UNCHANGED <<objects, frames>>
    /\ UNCHANGED storeVars

NextReorder ==
    \/ Calculate
    \/ \E perm \in Permutations(1..Len(input.products)) : ReorderLines(perm)

SpecReorder == Init /\ [][NextReorder]_vars

-----------------------------------------------------------------------------
(* The caller whose input has one filtered product line, no costs and no   *)
(* duty or tier margins.                                                   *)

SingleQuantities == {1, 2, 10}

SinglePrices == {0, 7, 100}

SingleMargins == {0, 15, 150}

\* the lines that may stand next to the filtered one: unchecked, or of
\* quantity 0
ExcludedShapes == {<<5, 9, FALSE, 20>>, <<0, 9, TRUE, 20>>}

\* the filtered line alone, or with one excluded line before or after it
SingleProductLists ==
    LET one == {<<q, u, TRUE, m>> : q \in SingleQuantities, u \in SinglePrices,
                                   m \in SingleMargins}
        shapes == {<<sh>> : sh \in one}
                    \cup {<<sh, ex>> : sh \in one, ex \in ExcludedShapes}
                    \cup {<<ex, sh>> : sh \in one, ex \in ExcludedShapes}
    IN  {[i \in 1..Len(shs) |->
            Line(GRAIN_PRODUCTS[i], shs[i][1], shs[i][2], shs[i][3], shs[i][4])] :
         shs \in shapes}

InitSingle ==
    /\ \E ps \in SingleProductLists : input = MakeInput(ps, ZeroCosts, 0, 0, 0)
    /\ results = <<>>
    /\ op = "init"
    /\ objects = <<>>
    /\ frames = <<>>
    /\ StoreConstructed

NextSingle == Calculate

SpecSingle == InitSingle /\ [][NextSingle]_vars

-----------------------------------------------------------------------------
(* The caller whose input has two filtered lines of equal value, and who   *)
(* exchanges their margins and invokes the engine again.                   *)

\* pairs of <<quantity, unitPrice>> with the same product
EqualValuePairs ==
    {<<<<10, 100>>, <<20, 50>>>>, <<<<1, 6>>, <<2, 3>>>>,
     <<<<2, 3>>, <<2, 3>>>>, <<<<3, 1>>, <<1, 3>>>>}

ShareMargins == {0, 10, 20, 150}

InitShares ==
    /\ \E pair \in EqualValuePairs, m1, m2 \in ShareMargins, sc \in Scenarios :
          input = MakeInput(
                      <<Line(GRAIN_PRODUCTS[1], pair[1][1], pair[1][2], TRUE, m1),
                        Line(GRAIN_PRODUCTS[2], pair[2][1], pair[2][2], TRUE, m2)>>,
                      sc[1], sc[2][1], sc[2][2], sc[2][3])
    /\ results = <<>>
    /\ op = "init"
    /\ objects = <<>>
    /\ frames = <<>>
    /\ StoreConstructed

\* inp with the margins of its first two lines exchanged
MarginsSwapped(inp) ==
    [inp EXCEPT !.products[1].margin = inp.products[2].margin,
                !.products[2].margin = inp.products[1].margin]

\* the two margins change places and the engine is invoked again
SwapMargins ==
    /\ op = "calculate"
    /\ input' = MarginsSwapped(input)
    /\ results' = <<calculateEstimate(input')>>
    /\ op' = "swapmargins"
    /\ UNCHANGED <<objects, frames>>
    /\ UNCHANGED storeVars

NextShares ==
    \/ Calculate
    \/ SwapMargins

SpecShares == InitShares /\ [][NextShares]_vars

-----------------------------------------------------------------------------
(* The caller whose input has percentages up to 300.                       *)

LargeMargins == {10, 150, 250}

LargeExportDutyRates == {0, 100, 150}

LargeDistributorMargins == {0, 200}

LargeRetailerMargins == {25, 300}

\* one line, or two lines of different value
LargeProductLists ==
    {<<Line(GRAIN_PRODUCTS[1], 2, 3, TRUE, m)>> : m \in LargeMargins}
        \cup {<<Line(GRAIN_PRODUCTS[1], 2, 3, TRUE, m1),
                Line(GRAIN_PRODUCTS[2], 1, 5, TRUE, m2)>> :
                    m1 \in LargeMargins, m2 \in LargeMargins}

InitLarge ==
    /\ \E ps \in LargeProductLists, c \in {ZeroCosts, DistinctCosts},
          e \in LargeExportDutyRates, d \in LargeDistributorMargins,
          r \in LargeRetailerMargins :
            input = MakeInput(ps, c, e, d, r)
    /\ results = <<>>
    /\ op = "init"
    /\ objects = <<>>
    /\ frames = <<>>
    /\ StoreConstructed

NextLarge == Calculate

SpecLarge == InitLarge /\ [][NextLarge]_vars

-----------------------------------------------------------------------------
(* The caller that passes the engine numbers no validation has seen:       *)
(* negative quantities, prices, margins, costs and percentages.            *)

SignedQuantities == {-1, 1, 2}

SignedPrices == {-3, 0, 3}

SignedMargins == {-50, 10}

SignedExportDutyRates == {-150, 0, 50}

SignedDistributorMargins == {-200, -100, 0}

SignedRetailerMargins == {-25, 20}

\* every cost zero or negative, the origin costs summing to -6
NegativeCosts ==
    [transportCost |-> -1, packingCost |-> -2, fumigationCost |-> -3,
     customsClearanceCost |-> 0, freightCost |-> -5, importDuty |-> -6,
     destinationCustomsClearance |-> -7, destinationTransport |-> -8]

SignedShapes ==
    (SignedQuantities \X SignedPrices \X {TRUE} \X SignedMargins)
        \cup {<<2, -3, FALSE, -50>>}

\* no line, one line or two lines of the signed shapes
SignedProductLists ==
    {<<>>}
        \cup {<<Line(GRAIN_PRODUCTS[1], a[1], a[2], a[3], a[4])>> : a \in SignedShapes}
        \cup {<<Line(GRAIN_PRODUCTS[1], a[1], a[2], a[3], a[4]),
                Line(GRAIN_PRODUCTS[2], b[1], b[2], b[3], b[4])>> :
                    a \in SignedShapes, b \in SignedShapes}

InitSigned ==
    /\ \E ps \in SignedProductLists,
          c \in {ZeroCosts, DistinctCosts, NegativeCosts},
          e \in SignedExportDutyRates, d \in SignedDistributorMargins,
          r \in SignedRetailerMargins :
            input = MakeInput(ps, c, e, d, r)
    /\ results = <<>>
    /\ op = "init"
    /\ objects = <<>>
    /\ frames = <<>>
    /\ StoreConstructed

NextSigned == Calculate

SpecSigned == InitSigned /\ [][NextSigned]_vars

-----------------------------------------------------------------------------
(* Overlapping invocations.  The input objects live in objects, by         *)
(* reference; each invocation has a frame holding its parameter (a         *)
(* reference), the values its const declarations have bound so far and its *)
(* position in the function body.  The body is executed in stages, and the *)
(* stages of different invocations interleave in every way.                *)

MaxCallers == 2

Callers == 1..MaxCallers

\* the references of the input objects
Refs == {1, 2}

\* the input objects the callers hold
CallInputs ==
    {MakeInput(ps, sc[1], sc[2][1], sc[2][2], sc[2][3]) :
        ps \in {<<Line(GRAIN_PRODUCTS[1], 2, 3, TRUE, 10),
                  Line(GRAIN_PRODUCTS[2], 1, 3, FALSE, 150)>>,
                <<Line(GRAIN_PRODUCTS[1], 0, 3, TRUE, 10),
                  Line(GRAIN_PRODUCTS[2], 1, 3, TRUE, 150)>>},
        sc \in Scenarios}

\* a frame no invocation is using
IdleFrame ==
    [pc |-> "idle", ref |-> 0, given |-> <<>>, includedProducts |-> <<>>,
     rawMaterialsCost |-> Zero, otherCosts |-> Zero,
     totalProcurementCost |-> Zero, totalProductValue |-> Zero,
     weightedMargin |-> Zero, marginAmount |-> Zero,
     invoiceValueBeforeDuty |-> Zero, exportDutyAmount |-> Zero,
     invoiceValue |-> Zero, otherLogisticsCosts |-> Zero,
     totalLogisticsCost |-> Zero, importerTotalCost |-> Zero,
     distributorPrice |-> Zero, retailerPrice |-> Zero,
     totalMarginPercentage |-> Zero, productBreakdown |-> <<>>,
     result |-> <<>>]

\* a parameter that every invocation reads from one shared place
Param_Shared(c) == objects[1]

\* the parameter `input` of invocation c: the object its reference names
Param(c) == objects[frames[c].ref]

\* a filter that works in place: the array keeps the filtered lines only
InputAfterFilter_InPlace(obj, inc) == [obj EXCEPT !.products = inc]

\* input.products.filter(...) returns a new array: the object is as it was
InputAfterFilter(obj, inc) == obj

InitCalls ==
    /\ input = MakeInput(<<>>, ZeroCosts, 0, 0, 0)
    /\ results = <<>>
    /\ op = "init"
    /\ objects \in [Refs -> CallInputs]
    /\ frames = [c \in Callers |-> IdleFrame]
    /\ StoreConstructed

\* caller c invokes calculateEstimate on object ref; given records the
\* object as it is at the call
Call(c, ref) ==
    /\ frames[c].pc = "idle"
    /\ frames' = [frames EXCEPT ![c] = [IdleFrame EXCEPT !.pc = "filter",
                                                         !.ref = ref,
                                                         !.given = objects[ref]]]
    /\ UNCHANGED <<input, results, op, objects>>
    /\ UNCHANGED storeVars

\* const includedProducts
StageFilter(c) ==
    /\ frames[c].pc = "filter"
    /\ LET inc == includedProducts(Param(c).products)
       IN  /\ frames' = [frames EXCEPT ![c].includedProducts = inc,
                                       ![c].pc = "procurement"]
           /\ objects' = [objects EXCEPT ![frames[c].ref] = InputAfterFilter(@, inc)]
    /\ UNCHANGED <<input, results, op>>
    /\ UNCHANGED storeVars

\* const rawMaterialsCost, otherCosts, totalProcurementCost
StageProcurement(c) ==
    /\ frames[c].pc = "procurement"
    /\ LET raw == rawMaterialsCost(frames[c].includedProducts)
           other == otherCosts(Param(c))
       IN  frames' = [frames EXCEPT
                        ![c].rawMaterialsCost = raw,
                        ![c].otherCosts = other,
                        ![c].totalProcurementCost =
                            totalProcurementCost(raw, Param(c), other),
                        ![c].pc = "margin"]
    /\ UNCHANGED <<input, results, op, objects>>
    /\ UNCHANGED storeVars

\* const totalProductValue, weightedMargin, marginAmount
StageMargin(c) ==
    /\ frames[c].pc = "margin"
    /\ LET tpv == totalProductValue(frames[c].includedProducts)
           wm == weightedMargin(frames[c].includedProducts, tpv)
       IN  frames' = [frames EXCEPT
                        ![c].totalProductValue = tpv,
                        ![c].weightedMargin = wm,
                        ![c].marginAmount =
                            marginAmount(frames[c].totalProcurementCost, wm),
                        ![c].pc = "invoice"]
    /\ UNCHANGED <<input, results, op, objects>>
    /\ UNCHANGED storeVars

\* const invoiceValueBeforeDuty, exportDutyAmount, invoiceValue
StageInvoice(c) ==
    /\ frames[c].pc = "invoice"
    /\ LET ivbd == invoiceValueBeforeDuty(frames[c].totalProcurementCost,
                                          frames[c].marginAmount)
           eda == exportDutyAmount(ivbd, Param(c))
       IN  frames' = [frames EXCEPT
                        ![c].invoiceValueBeforeDuty = ivbd,
                        ![c].exportDutyAmount = eda,
                        ![c].invoiceValue = invoiceValue(ivbd, eda),
                        ![c].pc = "logistics"]
    /\ UNCHANGED <<input, results, op, objects>>
    /\ UNCHANGED storeVars

\* const otherLogisticsCosts, totalLogisticsCost, importerTotalCost
StageLogistics(c) ==
    /\ frames[c].pc = "logistics"
    /\ LET olc == otherLogisticsCosts(Param(c))
           tlc == totalLogisticsCost(Param(c), olc)
       IN  frames' = [frames EXCEPT
                        ![c].otherLogisticsCosts = olc,
                        ![c].totalLogisticsCost = tlc,
                        ![c].importerTotalCost =
                            importerTotalCost(frames[c].invoiceValue, tlc),
                        ![c].pc = "tiers"]
    /\ UNCHANGED <<input, results, op, objects>>
    /\ UNCHANGED storeVars

\* const distributorPrice, retailerPrice, totalMarginPercentage
StageTiers(c) ==
    /\ frames[c].pc = "tiers"
    /\ LET dp == distributorPrice(frames[c].importerTotalCost, Param(c))
           rp == retailerPrice(dp, Param(c))
       IN  frames' = [frames EXCEPT
                        ![c].distributorPrice = dp,
                        ![c].retailerPrice = rp,
                        ![c].totalMarginPercentage =
                            totalMarginPercentage(rp, frames[c].totalProcurementCost),
                        ![c].pc = "breakdown"]
    /\ UNCHANGED <<input, results, op, objects>>
    /\ UNCHANGED storeVars

\* const productBreakdown
StageBreakdown(c) ==
    /\ frames[c].pc = "breakdown"
    /\ frames' = [frames EXCEPT
                     ![c].productBreakdown =
                         productBreakdown(frames[c].includedProducts,
                                          frames[c].totalProductValue,
                                          frames[c].invoiceValue,
                                          frames[c].distributorPrice,
                                          frames[c].retailerPrice),
                     ![c].pc = "return"]
    /\ UNCHANGED <<input, results, op, objects>>
    /\ UNCHANGED storeVars

\* the returned object, built from the parameter and the values bound
ReturnValue(f, inp) ==
    [rawMaterialsCost |-> f.rawMaterialsCost,
     transportCost |-> Num(inp.transportCost),
     packingCost |-> Num(inp.packingCost),
     fumigationCost |-> Num(inp.fumigationCost),
     customsClearanceCost |-> Num(inp.customsClearanceCost),
     otherCosts |-> f.otherCosts,
     totalProcurementCost |-> f.totalProcurementCost,
     marginAmount |-> f.marginAmount,
     exportDutyAmount |-> f.exportDutyAmount,
     invoiceValue |-> f.invoiceValue,
     freightCost |-> Num(inp.freightCost),
     importDutyCost |-> importDutyCost(inp),
     destinationCustomsClearance |-> Num(inp.destinationCustomsClearance),
     destinationTransport |-> Num(inp.destinationTransport),
     otherLogisticsCosts |-> f.otherLogisticsCosts,
     totalLogisticsCost |-> f.totalLogisticsCost,
     importerTotalCost |-> f.importerTotalCost,
     distributorPrice |-> f.distributorPrice,
     retailerPrice |-> f.retailerPrice,
     totalMarginPercentage |-> f.totalMarginPercentage,
     productBreakdown |-> f.productBreakdown]

\* return {...}
StageReturn(c) ==
    /\ frames[c].pc = "return"
    /\ frames' = [frames EXCEPT
                     ![c].result = <<ReturnValue(frames[c], Param(c))>>,
                     ![c].pc = "done"]
    /\ UNCHANGED <<input, results, op, objects>>
    /\ UNCHANGED storeVars

NextCalls ==
    \/ \E c \in Callers, ref \in Refs : Call(c, ref)
    \/ \E c \in Callers : StageFilter(c)
    \/ \E c \in Callers : StageProcurement(c)
    \/ \E c \in Callers : StageMargin(c)
    \/ \E c \in Callers : StageInvoice(c)
    \/ \E c \in Callers : StageLogistics(c)
    \/ \E c \in Callers : StageTiers(c)
    \/ \E c \in Callers : StageBreakdown(c)
    \/ \E c \in Callers : StageReturn(c)

SpecCalls == InitCalls /\ [][NextCalls]_vars

-----------------------------------------------------------------------------
(* The record store (MemStorage) and the request boundary in front of it.  *)
(* A JSON value whose type the schemas check is a pair <<type, payload>>;  *)
(* a field a body does not carry is outside the DOMAIN of the body; null   *)
(* is <<>>.  containerId and destination are sequences of characters.      *)

MaxId == 2

JString(s) == <<"string", s>>

\* a JSON number, by its decimal text
JNumber(s) == <<"number", s>>

IsJString(v) == v[1] = "string"

\* {...a, ...b}
Merge(a, b) ==
    [f \in DOMAIN a \cup DOMAIN b |-> IF f \in DOMAIN b THEN b[f] ELSE a[f]]

\* the columns of estimates that createInsertSchema maps to z.string()
TextColumns ==
    {"containerId", "destination", "estimateDate", "status", "transportCost",
     "packingCost", "fumigationCost", "customsClearanceCost", "exportDutyRate",
     "defaultMargin", "freightCost", "importDuty",
     "destinationCustomsClearance", "destinationTransport",
     "distributorMargin", "retailerMargin", "createdBy", "userRole"}

\* the columns that are jsonb: any JSON value passes
JsonColumns == {"products", "calculationResults"}

\* notNull columns without a default: an insert must carry them
RequiredColumns ==
    {"containerId", "destination", "estimateDate", "products", "createdBy",
     "userRole"}

\* the value the schema's parse returns: the known columns of the body, the
\* strings without their type mark (unknown keys, id among them, are dropped)
Parsed(body) ==
    [f \in DOMAIN body \cap (TextColumns \cup JsonColumns) |->
        IF f \in TextColumns THEN body[f][2] ELSE body[f]]

\* updateEstimateSchema.parse(body) does not throw
updateEstimateSchemaAccepts(body) ==
    \A f \in DOMAIN body \cap TextColumns : IsJString(body[f])

\* insertEstimateSchema.parse(body) does not throw
insertEstimateSchemaAccepts(body) ==
    /\ RequiredColumns \subseteq DOMAIN body
    /\ updateEstimateSchemaAccepts(body)

\* insertEstimate[f] || d, for a string field f
OrDefault(insertEstimate, f, d) ==
    IF f \in DOMAIN insertEstimate /\ insertEstimate[f] # ""
    THEN insertEstimate[f] ELSE d

\* the defaults createEstimate fills in
ColumnDefaults ==
    [status |-> "draft", transportCost |-> "0", packingCost |-> "0",
     fumigationCost |-> "0", customsClearanceCost |-> "0",
     exportDutyRate |-> "0", defaultMargin |-> "15", freightCost |-> "0",
     importDuty |-> "0", destinationCustomsClearance |-> "0",
     destinationTransport |-> "0", distributorMargin |-> "12",
     retailerMargin |-> "20"]

\* the Estimate createEstimate builds under identifier id
NewEstimate(insertEstimate, id) ==
    Merge(Merge(insertEstimate, [id |-> id]),
          [f \in DOMAIN ColumnDefaults |->
              OrDefault(insertEstimate, f, ColumnDefaults[f])])

\* this.estimates.set(id, estimate)
MapSet(m, id, estimate) ==
    [k \in DOMAIN m \cup {id} |-> IF k = id THEN estimate ELSE m[k]]

\* this.estimates.delete(id)
MapDelete(m, id) == [k \in DOMAIN m \ {id} |-> m[k]]

\* storage.createEstimate: the store and the counter after the call
\* a createEstimate that reads the counter without advancing it
createEstimate_NoIncrement(insertEstimate) ==
    /\ estimates' = MapSet(estimates, currentId,
                           NewEstimate(insertEstimate, currentId))
    /\ currentId' = currentId

createEstimate(insertEstimate) ==
    /\ estimates' = MapSet(estimates, currentId,
                           NewEstimate(insertEstimate, currentId))
    /\ currentId' = currentId + 1

\* a response of the routes: the answer's status code and the records of
\* its body (<<>> when the body carries no record)
Response(route, status, body) ==
    [route |-> route, status |-> status, body |-> body]

\* POST /api/estimates
PostEstimate(body) ==
    /\ IF ~insertEstimateSchemaAccepts(body)
       THEN /\ reply' = Response("POST /api/estimates", 400, <<>>)
            /\ UNCHANGED <<estimates, currentId>>
       ELSE /\ currentId <= MaxId
            /\ createEstimate(Parsed(body))
            /\ reply' = Response("POST /api/estimates", 201,
                                  <<estimates'[currentId]>>)
    /\ UNCHANGED <<input, results, op, objects, frames, pending>>

\* Array.from(this.estimates.values()): the records in insertion order,
\* which is the order of their keys
RECURSIVE Values(_)
Values(m) ==
    IF DOMAIN m = {} THEN <<>>
    ELSE LET k == CHOOSE x \in DOMAIN m : \A y \in DOMAIN m : x <= y
         IN  <<m[k]>> \o Values(MapDelete(m, k))

\* the comparator (a, b) => b.id - a.id
CompareDescending(a, b) == b.id - a.id

\* one step of a stable insertion sort with the comparator of the store
RECURSIVE InsertSorted(_, _)
InsertSorted(x, sorted) ==
    IF sorted = <<>> THEN <<x>>
    ELSE IF CompareDescending(Head(sorted), x) > 0
         THEN <<x>> \o sorted
         ELSE <<Head(sorted)>> \o InsertSorted(x, Tail(sorted))

\* array.sort((a, b) => b.id - a.id)
RECURSIVE SortById(_)
SortById(list) ==
    IF list = <<>> THEN <<>>
    ELSE InsertSorted(list[Len(list)], SortById(SubSeq(list, 1, Len(list) - 1)))

\* MemStorage.getEstimate: <<>> is undefined
getEstimate(id) == IF id \in DOMAIN estimates THEN <<estimates[id]>> ELSE <<>>

getAllEstimates_Unsorted == Values(estimates)

\* MemStorage.getAllEstimates
getAllEstimates == SortById(Values(estimates))

\* MemStorage.getEstimatesByStatus
getEstimatesByStatus(status) ==
    LET keep(estimate) == estimate.status = status
    IN  SortById(SelectSeq(Values(estimates), keep))


\* Texts that are searched or parsed are sequences of characters.

\* the letter U+00DF (sharp s): it is its own lower-case form, and its
\* upper-case form is the two letters SS
SharpS == "U+00DF"

\* String.prototype.toLowerCase on one character
LowerCaseOf(c) ==
    CASE c = "A" -> "a" [] c = "B" -> "b" [] c = "C" -> "c"
      [] c = "O" -> "o" [] c = "P" -> "p" [] c = "Y" -> "y"
      [] c = "S" -> "s"
      [] OTHER -> c

\* String.prototype.toLowerCase
toLowerCase(text) == [i \in 1..Len(text) |-> LowerCaseOf(text[i])]

\* String.prototype.includes
includes(text, part) ==
    \E i \in 0..(Len(text) - Len(part)) :
        SubSeq(text, i + 1, i + Len(part)) = part

searchEstimates_ContainerOnly(query) ==
    LET lowercaseQuery == toLowerCase(query)
        keep(estimate) ==
            includes(toLowerCase(estimate.containerId), lowercaseQuery)
    IN  SortById(SelectSeq(Values(estimates), keep))

\* MemStorage.searchEstimates
searchEstimates(query) ==
    LET lowercaseQuery == toLowerCase(query)
        keep(estimate) ==
            \/ includes(toLowerCase(estimate.containerId), lowercaseQuery)
            \/ includes(toLowerCase(estimate.destination), lowercaseQuery)
    IN  SortById(SelectSeq(Values(estimates), keep))

\* the value of a decimal digit, -1 for any other character
DigitValue(c) ==
    CASE c = "0" -> 0 [] c = "1" -> 1 [] c = "2" -> 2 [] c = "3" -> 3
      [] c = "4" -> 4 [] c = "5" -> 5 [] c = "6" -> 6 [] c = "7" -> 7
      [] c = "8" -> 8 [] c = "9" -> 9 [] OTHER -> -1

\* the number read from the leading digits of text, continuing from acc
RECURSIVE ReadDigits(_, _)
ReadDigits(text, acc) ==
    IF text = <<>> \/ DigitValue(Head(text)) < 0 THEN acc
    ELSE ReadDigits(Tail(text), 10 * acc + DigitValue(Head(text)))

\* parseInt(text): <<n>> for the integer the text starts with, <<>> for NaN
parseInt(text) ==
    IF text # <<>> /\ Head(text) = "-"
    THEN IF Len(text) > 1 /\ DigitValue(text[2]) >= 0
         THEN <<0 - ReadDigits(Tail(text), 0)>> ELSE <<>>
    ELSE IF text # <<>> /\ DigitValue(Head(text)) >= 0
         THEN <<ReadDigits(text, 0)>> ELSE <<>>

\* GET /api/estimates
GetAllEstimates ==
    /\ reply' = Response("GET /api/estimates", 200, getAllEstimates)
    /\ UNCHANGED <<input, results, op, objects, frames,
                   estimates, currentId, pending>>

\* GET /api/estimates/status/:status
GetEstimatesByStatus(status) ==
    /\ reply' = Response("GET /api/estimates/status/:status", 200,
                         getEstimatesByStatus(status))
    /\ UNCHANGED <<input, results, op, objects, frames,
                   estimates, currentId, pending>>

\* GET /api/estimates/search
SearchEstimates(q) ==
    /\ reply' = IF q = <<>>
                THEN Response("GET /api/estimates/search", 400, <<>>)
                ELSE Response("GET /api/estimates/search", 200,
                              searchEstimates(q))
    /\ UNCHANGED <<input, results, op, objects, frames,
                   estimates, currentId, pending>>

\* GET /api/estimates/:id
GetEstimate(idText) ==
    LET id == parseInt(idText) IN
    /\ reply' = IF id = <<>>
                THEN Response("GET /api/estimates/:id", 400, <<>>)
                ELSE IF getEstimate(id[1]) = <<>>
                THEN Response("GET /api/estimates/:id", 404, <<>>)
                ELSE Response("GET /api/estimates/:id", 200,
                              getEstimate(id[1]))
    /\ UNCHANGED <<input, results, op, objects, frames,
                   estimates, currentId, pending>>

\* MemStorage.updateEstimate: the new map, and <<>> (undefined) or the
\* updated record
updateEstimate(id, update) ==
    IF getEstimate(id) = <<>>
    THEN [map |-> estimates, returns |-> <<>>]
    ELSE LET updated == Merge(estimates[id], update)
         IN  [map |-> MapSet(estimates, id, updated), returns |-> <<updated>>]

PatchEstimate_LookupFirst(idText, body) ==
    LET id == parseInt(idText) IN
    /\ IF id = <<>>
       THEN /\ reply' = Response("PATCH /api/estimates/:id", 400, <<>>)
            /\ UNCHANGED estimates
       ELSE IF getEstimate(id[1]) = <<>>
       THEN /\ reply' = Response("PATCH /api/estimates/:id", 404, <<>>)
            /\ UNCHANGED estimates
       ELSE IF ~updateEstimateSchemaAccepts(body)
       THEN /\ reply' = Response("PATCH /api/estimates/:id", 400, <<>>)
            /\ UNCHANGED estimates
       ELSE LET call == updateEstimate(id[1], Parsed(body)) IN
            /\ estimates' = call.map
            /\ reply' = Response("PATCH /api/estimates/:id", 200, call.returns)
    /\ UNCHANGED <<input, results, op, objects, frames, currentId, pending>>

\* PATCH /api/estimates/:id
PatchEstimate(idText, body) ==
    LET id == parseInt(idText) IN
    /\ IF id = <<>> \/ ~updateEstimateSchemaAccepts(body)
       THEN /\ reply' = Response("PATCH /api/estimates/:id", 400, <<>>)
            /\ UNCHANGED estimates
       ELSE LET call == updateEstimate(id[1], Parsed(body)) IN
            /\ estimates' = call.map
            /\ reply' = IF call.returns = <<>>
                        THEN Response("PATCH /api/estimates/:id", 404, <<>>)
                        ELSE Response("PATCH /api/estimates/:id", 200,
                                      call.returns)
    /\ UNCHANGED <<input, results, op, objects, frames, currentId, pending>>

\* MemStorage.deleteEstimate: the new map, and whether a record was deleted
deleteEstimate(id) ==
    [map |-> MapDelete(estimates, id), returns |-> id \in DOMAIN estimates]

\* DELETE /api/estimates/:id
DeleteEstimate(idText) ==
    LET id == parseInt(idText) IN
    /\ IF id = <<>>
       THEN /\ reply' = Response("DELETE /api/estimates/:id", 400, <<>>)
            /\ UNCHANGED estimates
       ELSE LET call == deleteEstimate(id[1]) IN
            /\ estimates' = call.map
            /\ reply' = IF call.returns
                        THEN Response("DELETE /api/estimates/:id", 204, <<>>)
                        ELSE Response("DELETE /api/estimates/:id", 404, <<>>)
    /\ UNCHANGED <<input, results, op, objects, frames, currentId, pending>>

\* the record without its field f: const { id: _, ...estimateData }
Without(record, f) == [k \in DOMAIN record \ {f} |-> record[k]]

MaxPending == 1

CopySuffix == <<"-", "C", "O", "P", "Y">>

\* POST /api/estimates/:id/duplicate up to the answer of getEstimate; a
\* found original is held by the request until its second half runs
DuplicateRead(idText) ==
    LET id == parseInt(idText) IN
    /\ IF id = <<>>
       THEN /\ reply' = Response("POST /api/estimates/:id/duplicate", 400, <<>>)
            /\ UNCHANGED pending
       ELSE IF getEstimate(id[1]) = <<>>
       THEN /\ reply' = Response("POST /api/estimates/:id/duplicate", 404, <<>>)
            /\ UNCHANGED pending
       ELSE /\ Cardinality(pending) < MaxPending
            /\ currentId <= MaxId
            /\ pending' = pending \cup {estimates[id[1]]}
            /\ UNCHANGED reply
    /\ UNCHANGED <<input, results, op, objects, frames, estimates, currentId>>

\* the argument of createEstimate in the duplicate route
duplicateData(original) ==
    Merge(Without(original, "id"),
          [containerId |-> original.containerId \o CopySuffix,
           status |-> "draft",
           products |-> original.products,
           calculationResults |-> original.calculationResults])

\* POST /api/estimates/:id/duplicate from createEstimate to the answer
DuplicateCreate(original) ==
    /\ original \in pending
    /\ currentId <= MaxId
    /\ createEstimate(duplicateData(original))
    /\ pending' = pending \ {original}
    /\ reply' = Response("POST /api/estimates/:id/duplicate", 201,
                         <<estimates'[currentId]>>)
    /\ UNCHANGED <<input, results, op, objects, frames>>

\* POST /api/estimates/calculate: data.calculationResults || {}, where the
\* empty object is the empty function <<>>
PostCalculate(body) ==
    /\ reply' = Response("POST /api/estimates/calculate", 200,
                         IF "calculationResults" \in DOMAIN body
                            /\ body.calculationResults # <<>>
                         THEN body.calculationResults
                         ELSE << <<>> >>)
    /\ UNCHANGED <<input, results, op, objects, frames,
                   estimates, currentId, pending>>

-----------------------------------------------------------------------------
(* The create-estimate form.  input holds the numeric form values,         *)
(* results the calculationResults state (<<>> is null) and op the handler  *)
(* that ran last.  The text fields stay at their defaults.                 *)

MaxSaves == 1

\* the product lines the user edits
EditedLines == {1}

\* what the user types into a quantity field
QuantityTexts == {"2", "-1", ""}

\* what the user types into a unit price field
PriceTexts == {"3", ""}

\* the numbers whose decimal text the model reads
Numerals == -9..99

\* parseFloat(e.target.value) || 0
FieldValue(text) ==
    IF \E n \in Numerals : ToString(n) = text
    THEN CHOOSE n \in Numerals : ToString(n) = text
    ELSE 0

\* defaultValues
FormDefaults ==
    MakeInput([i \in 1..Len(GRAIN_PRODUCTS) |->
                  Line(GRAIN_PRODUCTS[i], 0, 0, FALSE, 15)],
              ZeroCosts, 0, 12, 20)

\* the form values that are not numbers of the engine's input
FormTextDefaults ==
    [containerId |-> <<>>, destination |-> <<>>, estimateDate |-> "2024-01-15",
     defaultMargin |-> 15]

InitForm ==
    /\ input = FormDefaults
    /\ results = <<>>
    /\ op = "init"
    /\ objects = <<>>
    /\ frames = <<>>
    /\ StoreConstructed

\* onChange of products.i.quantity
EditQuantity(i, text) ==
    /\ input' = [input EXCEPT !.products[i].quantity = FieldValue(text)]
    /\ op' = "edit"
    /\ UNCHANGED <<results, objects, frames>>
    /\ UNCHANGED storeVars

\* onChange of products.i.unitPrice
EditUnitPrice(i, text) ==
    /\ input' = [input EXCEPT !.products[i].unitPrice = FieldValue(text)]
    /\ op' = "edit"
    /\ UNCHANGED <<results, objects, frames>>
    /\ UNCHANGED storeVars

\* onCheckedChange of products.i.included
EditIncluded(i) ==
    /\ input' = [input EXCEPT !.products[i].included = ~@]
    /\ op' = "edit"
    /\ UNCHANGED <<results, objects, frames>>
    /\ UNCHANGED storeVars

\* calculateResults
calculateResults ==
    /\ results' = <<calculateEstimate(input)>>
    /\ op' = "calculateResults"
    /\ UNCHANGED <<input, objects, frames>>
    /\ UNCHANGED storeVars

\* resetForm
resetForm ==
    /\ input' = FormDefaults
    /\ results' = <<>>
    /\ op' = "resetForm"
    /\ UNCHANGED <<objects, frames>>
    /\ UNCHANGED storeVars

\* the body saveEstimate(status) sends, as JSON
estimateData(status) ==
    [containerId |-> JString(FormTextDefaults.containerId),
     destination |-> JString(FormTextDefaults.destination),
     estimateDate |-> JString(FormTextDefaults.estimateDate),
     status |-> JString(status),
     products |-> input.products,
     transportCost |-> JString(ToString(input.transportCost)),
     packingCost |-> JString(ToString(input.packingCost)),
     fumigationCost |-> JString(ToString(input.fumigationCost)),
     customsClearanceCost |-> JString(ToString(input.customsClearanceCost)),
     exportDutyRate |-> JString(ToString(input.exportDutyRate)),
     defaultMargin |-> JString(ToString(FormTextDefaults.defaultMargin)),
     freightCost |-> JString(ToString(input.freightCost)),
     importDuty |-> JString(ToString(input.importDuty)),
     destinationCustomsClearance |->
         JString(ToString(input.destinationCustomsClearance)),
     destinationTransport |-> JString(ToString(input.destinationTransport)),
     distributorMargin |-> JString(ToString(input.distributorMargin)),
     retailerMargin |-> JString(ToString(input.retailerMargin)),
     calculationResults |-> results,
     createdBy |-> JString("current-user"),
     userRole |-> JString("admin")]

\* saveEstimate(status) and the request it sends; "completed" is offered
\* only while results are shown
saveEstimate(status) ==
    /\ currentId <= MaxSaves
    /\ status = "completed" => results # <<>>
    /\ PostEstimate(estimateData(status))

NextForm ==
    \/ \E i \in EditedLines, text \in QuantityTexts : EditQuantity(i, text)
    \/ \E i \in EditedLines, text \in PriceTexts : EditUnitPrice(i, text)
    \/ \E i \in EditedLines : EditIncluded(i)
    \/ calculateResults
    \/ resetForm
    \/ \E status \in {"draft", "completed"} : saveEstimate(status)

SpecForm == InitForm /\ [][NextForm]_vars

-----------------------------------------------------------------------------
(* The routes over the record store.  Every request is one step, except    *)
(* duplicate, whose read and create are two steps that other requests may  *)
(* come between.  reply holds the last response.                           *)

\* the input of the sample request bodies
SampleInput ==
    MakeInput(<<Line("Basmati Rice", 2, 3, TRUE, 15)>>, ZeroCosts, 0, 12, 20)

\* a request body as the form builds it
EstimateBody(containerId, destination, status, calculationResults) ==
    [containerId |-> JString(containerId),
     destination |-> JString(destination),
     estimateDate |-> JString("2024-01-15"),
     status |-> JString(status),
     products |-> SampleInput.products,
     transportCost |-> JString("0"),
     packingCost |-> JString("0"),
     fumigationCost |-> JString("0"),
     customsClearanceCost |-> JString("0"),
     exportDutyRate |-> JString("0"),
     defaultMargin |-> JString("15"),
     freightCost |-> JString("0"),
     importDuty |-> JString("0"),
     destinationCustomsClearance |-> JString("0"),
     destinationTransport |-> JString("0"),
     distributorMargin |-> JString("12"),
     retailerMargin |-> JString("20"),
     calculationResults |-> calculationResults,
     createdBy |-> JString("current-user"),
     userRole |-> JString("admin")]

CompletedBody ==
    EstimateBody(<<"A", "b">>, <<"b", "1">>, "completed",
                 <<calculateEstimate(SampleInput)>>)

\* a body of the required columns only
MinimalBody ==
    [containerId |-> JString(<<"B">>),
     destination |-> JString(<<"a">>),
     estimateDate |-> JString("2024-01-15"),
     products |-> SampleInput.products,
     calculationResults |-> <<>>,
     createdBy |-> JString("current-user"),
     userRole |-> JString("ops_analyst")]

ShippedBody == EstimateBody(<<"1">>, <<"Y">>, "shipped", <<>>)

\* bodies of POST /api/estimates: two well-formed ones, one whose status is
\* outside the documented tags, one without a required column, one with a
\* number where text is required
PostBodies ==
    {CompletedBody, MinimalBody, ShippedBody,
     Without(CompletedBody, "createdBy"),
     Merge(MinimalBody, [status |-> JNumber("7")])}

\* bodies of PATCH /api/estimates/:id
PatchBodies ==
    {[status |-> JString("archived")],
     [containerId |-> JString(<<"a", "B">>), id |-> JNumber("9")],
     [transportCost |-> JString("")],
     [status |-> JNumber("7")]}

\* bodies of POST /api/estimates/calculate
CalculateBodies ==
    {SampleInput,
     Merge(SampleInput, [calculationResults |-> <<calculateEstimate(FormDefaults)>>])}

DigitOf(n) == CHOOSE c \in {"0", "1", "2", "3", "4", "5", "6", "7", "8", "9"} :
                  DigitValue(c) = n

\* the :id parameters sent: every identifier issued, one never issued, and
\* texts that are not numerals
IdTexts ==
    {<<DigitOf(n)>> : n \in 1..(MaxId + 1)} \cup {<<"x">>, <<"1", "x">>}

StatusParams == {"draft", "completed", "archived"}

Queries == {<<>>, <<"a">>, <<"A", "B">>, <<"c", "o", "p", "y">>, <<SharpS>>}

InitStore ==
    /\ input = FormDefaults
    /\ results = <<>>
    /\ op = "init"
    /\ objects = <<>>
    /\ frames = <<>>
    /\ StoreConstructed

NextStore ==
    \/ GetAllEstimates
    \/ \E status \in StatusParams : GetEstimatesByStatus(status)
    \/ \E q \in Queries : SearchEstimates(q)
    \/ \E idText \in IdTexts : GetEstimate(idText)
    \/ \E body \in PostBodies : PostEstimate(body)
    \/ \E idText \in IdTexts, body \in PatchBodies : PatchEstimate(idText, body)
    \/ \E idText \in IdTexts : DeleteEstimate(idText)
    \/ \E idText \in IdTexts : DuplicateRead(idText)
    \/ \E original \in pending : DuplicateCreate(original)
    \/ \E body \in CalculateBodies : PostCalculate(body)

SpecStore == InitStore /\ [][NextStore]_vars

-----------------------------------------------------------------------------
(* The listing routes over a store that creates, updates and deletes.      *)

ListPostBodies == {CompletedBody, MinimalBody}

ListPatchBodies ==
    {[status |-> JString("archived")],
     [containerId |-> JString(<<"a", "B">>),
      destination |-> JString(<<"1", SharpS>>)]}

NextLists ==
    \/ GetAllEstimates
    \/ \E status \in StatusParams : GetEstimatesByStatus(status)
    \/ \E q \in Queries : SearchEstimates(q)
    \/ \E body \in ListPostBodies : PostEstimate(body)
    \/ \E idText \in IdTexts, body \in ListPatchBodies :
           PatchEstimate(idText, body)
    \/ \E idText \in IdTexts : DeleteEstimate(idText)

SpecLists == InitStore /\ [][NextLists]_vars

-----------------------------------------------------------------------------
(* The routes that take an :id, and the routes that create.                *)

IdPostBodies == {CompletedBody, Without(CompletedBody, "createdBy")}

IdPatchBodies ==
    {[status |-> JString("archived"), id |-> JNumber("9")],
     [status |-> JNumber("7")]}

NextIds ==
    \/ \E idText \in IdTexts : GetEstimate(idText)
    \/ \E body \in IdPostBodies : PostEstimate(body)
    \/ \E idText \in IdTexts, body \in IdPatchBodies :
           PatchEstimate(idText, body)
    \/ \E idText \in IdTexts : DeleteEstimate(idText)
    \/ \E idText \in IdTexts : DuplicateRead(idText)
    \/ \E original \in pending : DuplicateCreate(original)

SpecIds == InitStore /\ [][NextIds]_vars

-----------------------------------------------------------------------------
(* Vocabulary of the properties, stated on the input and on the returned   *)
(* value, independently of the engine's own definitions.                   *)

Done == results # <<>>

\* the value the engine returned
R == results[1]

\* a filtered line: included = true and quantity > 0
FilteredLine(p) == p.included = TRUE /\ p.quantity > 0

RECURSIVE SumOver(_, _)
SumOver(f, S) ==
    IF S = {} THEN 0
    ELSE LET x == CHOOSE y \in S : TRUE IN f[x] + SumOver(f, S \ {x})

HasFilteredLine(inp) ==
    \E i \in 1..Len(inp.products) : FilteredLine(inp.products[i])

\* sum of quantity * unitPrice over the filtered lines
TotalValueOf(inp) ==
    LET ps == inp.products
    IN  SumOver([i \in 1..Len(ps) |->
                    IF FilteredLine(ps[i])
                    THEN ps[i].quantity * ps[i].unitPrice ELSE 0],
                1..Len(ps))

\* sum of margin * quantity * unitPrice over the filtered lines
MarginValueOf(inp) ==
    LET ps == inp.products
    IN  SumOver([i \in 1..Len(ps) |->
                    IF FilteredLine(ps[i])
                    THEN ps[i].margin * ps[i].quantity * ps[i].unitPrice ELSE 0],
                1..Len(ps))

\* the value-share-weighted average margin, 0 when there is no value
WeightedMarginOf(inp) ==
    IF TotalValueOf(inp) > 0
    THEN Norm(MarginValueOf(inp), TotalValueOf(inp)) ELSE Zero

RECURSIVE SumNum(_, _)
SumNum(f, S) ==
    IF S = {} THEN Zero
    ELSE LET x == CHOOSE y \in S : TRUE IN Add(f[x], SumNum(f, S \ {x}))

\* sum over the breakdown entries of price * quantity
AllocatedInvoice(r) ==
    SumNum([i \in 1..Len(r.productBreakdown) |->
               Mul(r.productBreakdown[i].invoicePrice,
                   Num(r.productBreakdown[i].quantity))],
           1..Len(r.productBreakdown))

AllocatedDistributor(r) ==
    SumNum([i \in 1..Len(r.productBreakdown) |->
               Mul(r.productBreakdown[i].distributorPrice,
                   Num(r.productBreakdown[i].quantity))],
           1..Len(r.productBreakdown))

AllocatedRetailer(r) ==
    SumNum([i \in 1..Len(r.productBreakdown) |->
               Mul(r.productBreakdown[i].retailerPrice,
                   Num(r.productBreakdown[i].quantity))],
           1..Len(r.productBreakdown))

RoundTrip(r) ==
    /\ AllocatedInvoice(r) = r.invoiceValue
    /\ AllocatedDistributor(r) = r.distributorPrice
    /\ AllocatedRetailer(r) = r.retailerPrice

OriginCostsOf(inp) ==
    inp.transportCost + inp.packingCost + inp.fumigationCost
        + inp.customsClearanceCost

DestinationCostsOf(inp) ==
    inp.freightCost + inp.importDuty + inp.destinationCustomsClearance
        + inp.destinationTransport

\* x percent as a factor: 1 + x/100
Markup(x) == Add(One, Div(x, Hundred))

-----------------------------------------------------------------------------
(* C1: allocation round trip.  As claimed: for every input with at least   *)
(* one filtered line, the breakdown's invoicePrice * quantity sum to       *)
(* invoiceValue, and likewise for distributorPrice and retailerPrice, also *)
(* when every filtered line has unitPrice 0 and other costs are positive.  *)
C1_RoundTripEveryFilteredInput ==
    (Done /\ HasFilteredLine(input)) => RoundTrip(R)

(* C1, amended: the round trip holds for every input whose total product   *)
(* value is positive; when filtered lines exist and the total product      *)
(* value is 0 the allocated sums are 0 whatever the blended totals are.    *)
C1_RoundTripPositiveValue ==
    (Done /\ HasFilteredLine(input)) =>
        IF TotalValueOf(input) > 0
        THEN RoundTrip(R)
        ELSE /\ AllocatedInvoice(R) = Zero
             /\ AllocatedDistributor(R) = Zero
             /\ AllocatedRetailer(R) = Zero

\* two filtered lines of different value, positive costs and rates
C1_Witness ==
    /\ Done
    /\ Len(R.productBreakdown) = 2
    /\ R.productBreakdown[1].invoicePrice # R.productBreakdown[2].invoicePrice
    /\ R.productBreakdown[1].quantity # R.productBreakdown[2].quantity
    /\ Gt(R.invoiceValue, R.totalProcurementCost)
    /\ Gt(R.retailerPrice, R.distributorPrice)
    /\ Gt(R.totalProcurementCost, R.rawMaterialsCost)

(* C2: for every input whose total product value is positive,             *)
(* marginAmount = totalProcurementCost * W / 100 with W the value-share-   *)
(* weighted average of the filtered lines' margins, stated cross-          *)
(* multiplied: marginAmount * totalProductValue * 100 =                    *)
(* totalProcurementCost * sum(margin * quantity * unitPrice); the margins  *)
(* of excluded lines do not enter the sum.                                 *)
C2_WeightedMarginAmount ==
    (Done /\ TotalValueOf(input) > 0) =>
        Mul(Mul(R.marginAmount, Num(TotalValueOf(input))), Hundred)
            = Mul(R.totalProcurementCost, Num(MarginValueOf(input)))

\* two filtered lines of different margin and different positive value
C2_Witness ==
    /\ Done
    /\ Len(input.products) = 2
    /\ \A i \in 1..2 : /\ FilteredLine(input.products[i])
                       /\ input.products[i].unitPrice > 0
    /\ input.products[1].margin # input.products[2].margin
    /\ input.products[1].quantity # input.products[2].quantity
    /\ Gt(R.totalProcurementCost, R.rawMaterialsCost)
    /\ Gt(R.marginAmount, Zero)

\* every number of a returned value is finite
AllFinite(r) ==
    /\ \A f \in DOMAIN r \ {"productBreakdown"} : IsFinite(r[f])
    /\ \A i \in 1..Len(r.productBreakdown) :
          /\ IsFinite(r.productBreakdown[i].invoicePrice)
          /\ IsFinite(r.productBreakdown[i].distributorPrice)
          /\ IsFinite(r.productBreakdown[i].retailerPrice)

(* C3: when filtered lines exist and the total product value is 0, no      *)
(* division by zero happens (every returned number is finite),             *)
(* marginAmount is 0 and every breakdown entry has invoicePrice =          *)
(* distributorPrice = retailerPrice = 0, whatever its quantity and         *)
(* whatever the other costs.                                               *)
C3_ZeroValueNoDivision ==
    (Done /\ HasFilteredLine(input) /\ TotalValueOf(input) = 0) =>
        /\ AllFinite(R)
        /\ R.marginAmount = Zero
        /\ Len(R.productBreakdown) > 0
        /\ \A i \in 1..Len(R.productBreakdown) :
              /\ R.productBreakdown[i].invoicePrice = Zero
              /\ R.productBreakdown[i].distributorPrice = Zero
              /\ R.productBreakdown[i].retailerPrice = Zero

\* two filtered lines of price 0 and different quantity, positive costs
C3_Witness ==
    /\ Done
    /\ Len(input.products) = 2
    /\ \A i \in 1..2 : /\ FilteredLine(input.products[i])
                       /\ input.products[i].unitPrice = 0
    /\ input.products[1].quantity # input.products[2].quantity
    /\ OriginCostsOf(input) > 0
    /\ DestinationCostsOf(input) > 0
    /\ Gt(R.retailerPrice, Zero)

(* C4: for every input whose product list is empty or holds only lines     *)
(* with included = false or quantity <= 0, rawMaterialsCost = 0,           *)
(* marginAmount = 0 and productBreakdown is empty.                         *)
C4_NoFilteredLines ==
    (Done /\ ~HasFilteredLine(input)) =>
        /\ R.rawMaterialsCost = Zero
        /\ R.marginAmount = Zero
        /\ R.productBreakdown = <<>>

\* an unchecked line and a line of quantity <= 0, both of positive price,
\* under positive costs
C4_Witness ==
    /\ Done
    /\ Len(input.products) = 2
    /\ \E i, j \in 1..2 :
          /\ ~input.products[i].included /\ input.products[i].quantity > 0
          /\ input.products[j].included /\ input.products[j].quantity < 0
    /\ \A i \in 1..2 : input.products[i].unitPrice > 0
    /\ Gt(R.totalProcurementCost, Zero)

\* the input without its lines that are not filtered
VisiblePart(inp) ==
    [inp EXCEPT !.products = SelectSeq(@, FilteredLine)]

(* C5: excluded lines are invisible.  Every step that invokes the engine   *)
(* again on an input that differs from the previous one only in lines with *)
(* included = false or quantity <= 0 returns the value returned before, in *)
(* every field including productBreakdown.                                 *)
C5_ExcludedLinesInvisible ==
    [][(Done /\ results' # <<>> /\ VisiblePart(input') = VisiblePart(input))
          => results' = results]_vars

\* an excluded line of positive price has just been added after a filtered
\* line of positive value
C5_Witness ==
    /\ op = "add"
    /\ Len(input.products) = 2
    /\ FilteredLine(input.products[1]) /\ input.products[1].unitPrice > 0
    /\ ~FilteredLine(input.products[2]) /\ input.products[2].unitPrice > 0
    /\ input.products[2].quantity # 0
    /\ input.products[2].margin # input.products[1].margin
    /\ Len(R.productBreakdown) = 1

(* C6: for all inputs, totalProcurementCost = rawMaterialsCost +           *)
(* transportCost + packingCost + fumigationCost + customsClearanceCost,    *)
(* where rawMaterialsCost is the sum of quantity * unitPrice over the      *)
(* filtered lines and otherCosts = fumigationCost + customsClearanceCost.  *)
C6_TotalProcurementCost ==
    Done =>
        /\ R.rawMaterialsCost = Num(TotalValueOf(input))
        /\ R.otherCosts = Num(input.fumigationCost + input.customsClearanceCost)
        /\ R.totalProcurementCost
              = Num(TotalValueOf(input) + input.transportCost + input.packingCost
                    + input.fumigationCost + input.customsClearanceCost)

\* positive raw materials and four positive, different origin costs, with an
\* excluded line of positive price present
C6_Witness ==
    /\ Done
    /\ Gt(R.rawMaterialsCost, Zero)
    /\ Cardinality({input.transportCost, input.packingCost,
                    input.fumigationCost, input.customsClearanceCost, 0}) = 5
    /\ \E i \in 1..Len(input.products) :
          ~FilteredLine(input.products[i]) /\ input.products[i].unitPrice > 0

(* C7: for all inputs, exportDutyAmount = (totalProcurementCost +          *)
(* marginAmount) * exportDutyRate / 100, invoiceValue =                    *)
(* totalProcurementCost + marginAmount + exportDutyAmount, and so          *)
(* invoiceValue = totalProcurementCost * (1 + weightedMargin / 100) *      *)
(* (1 + exportDutyRate / 100).                                             *)
C7_InvoiceValue ==
    Done =>
        LET base == Add(R.totalProcurementCost, R.marginAmount)
        IN  /\ R.exportDutyAmount
                  = Mul(base, Div(Num(input.exportDutyRate), Hundred))
            /\ R.invoiceValue = Add(base, R.exportDutyAmount)
            /\ R.invoiceValue
                  = Mul(Mul(R.totalProcurementCost, Markup(WeightedMarginOf(input))),
                        Markup(Num(input.exportDutyRate)))

\* a positive margin amount and a positive export duty
C7_Witness ==
    /\ Done
    /\ input.exportDutyRate > 0
    /\ Gt(R.marginAmount, Zero)
    /\ Gt(R.totalProcurementCost, R.rawMaterialsCost)
    /\ Gt(R.exportDutyAmount, Zero)
    /\ Gt(R.invoiceValue, Add(R.totalProcurementCost, R.marginAmount))

(* C8: for all inputs, otherLogisticsCosts = destinationCustomsClearance + *)
(* destinationTransport, totalLogisticsCost = freightCost + importDuty +   *)
(* otherLogisticsCosts and importerTotalCost = invoiceValue +              *)
(* totalLogisticsCost: the destination costs enter after the export duty,  *)
(* at their face value, with no margin or duty applied to them.            *)
C8_ImporterTotalCost ==
    Done =>
        /\ R.otherLogisticsCosts
              = Num(input.destinationCustomsClearance + input.destinationTransport)
        /\ R.totalLogisticsCost = Num(DestinationCostsOf(input))
        /\ R.importerTotalCost = Add(R.invoiceValue, R.totalLogisticsCost)
        /\ Sub(R.importerTotalCost,
               Mul(Mul(R.totalProcurementCost, Markup(WeightedMarginOf(input))),
                   Markup(Num(input.exportDutyRate))))
              = Num(DestinationCostsOf(input))

\* four positive, different destination costs under a positive margin amount
\* and a positive export duty
C8_Witness ==
    /\ Done
    /\ Cardinality({input.freightCost, input.importDuty,
                    input.destinationCustomsClearance,
                    input.destinationTransport, 0}) = 5
    /\ Gt(R.marginAmount, Zero)
    /\ Gt(R.exportDutyAmount, Zero)

(* C9: for all inputs, distributorPrice = importerTotalCost *              *)
(* (1 + distributorMargin / 100) and retailerPrice = distributorPrice *    *)
(* (1 + retailerMargin / 100): the two margins compound, they are not      *)
(* added together.                                                         *)
C9_TierPrices ==
    Done =>
        /\ R.distributorPrice
              = Mul(R.importerTotalCost, Markup(Num(input.distributorMargin)))
        /\ R.retailerPrice
              = Mul(R.distributorPrice, Markup(Num(input.retailerMargin)))
        /\ R.retailerPrice
              = Mul(Mul(R.importerTotalCost, Markup(Num(input.distributorMargin))),
                    Markup(Num(input.retailerMargin)))

\* both tier margins positive and different, on a positive importer cost
C9_Witness ==
    /\ Done
    /\ input.distributorMargin > 0
    /\ input.retailerMargin > 0
    /\ input.distributorMargin # input.retailerMargin
    /\ Gt(R.importerTotalCost, Zero)
    /\ Gt(R.retailerPrice, R.distributorPrice)

(* C10: for all inputs, totalMarginPercentage = (retailerPrice -           *)
(* totalProcurementCost) / totalProcurementCost * 100 when                 *)
(* totalProcurementCost > 0, and 0 when totalProcurementCost = 0, also     *)
(* when logistics costs make retailerPrice positive.                       *)
C10_TotalMarginPercentage ==
    Done =>
        /\ Gt(R.totalProcurementCost, Zero) =>
              R.totalMarginPercentage
                  = Mul(Div(Sub(R.retailerPrice, R.totalProcurementCost),
                            R.totalProcurementCost), Hundred)
        /\ R.totalProcurementCost = Zero => R.totalMarginPercentage = Zero

\* no procurement cost, yet a positive retailer price from logistics costs
C10_Witness ==
    /\ Done
    /\ R.totalProcurementCost = Zero
    /\ Gt(R.retailerPrice, Zero)
    /\ R.totalMarginPercentage = Zero

\* the fields of a returned value other than productBreakdown
Scalars(r) == [f \in DOMAIN r \ {"productBreakdown"} |-> r[f]]

\* the elements of a sequence with their number of occurrences
BagOf(seq) ==
    [e \in {seq[i] : i \in 1..Len(seq)} |->
        Cardinality({i \in 1..Len(seq) : seq[i] = e})]

\* inp and inq hold the same product lines, in any order, and agree on
\* every other field
SameLinesAnyOrder(inp, inq) ==
    /\ [inp EXCEPT !.products = <<>>] = [inq EXCEPT !.products = <<>>]
    /\ BagOf(inp.products) = BagOf(inq.products)

\* the names of the filtered lines of inp, in input order
FilteredNames(inp) ==
    LET f == SelectSeq(inp.products, FilteredLine)
    IN  [i \in 1..Len(f) |-> f[i].name]

(* C11: every step that invokes the engine again on the same input with    *)
(* its product lines in another order returns the same value in every      *)
(* scalar field and the same multiset of productBreakdown entries, listed  *)
(* in the input order of the filtered lines.                               *)
C11_OrderOfLines ==
    [][(Done /\ results' # <<>> /\ SameLinesAnyOrder(input, input')) =>
          /\ Scalars(results'[1]) = Scalars(R)
          /\ BagOf(results'[1].productBreakdown) = BagOf(R.productBreakdown)
          /\ [i \in 1..Len(results'[1].productBreakdown) |->
                 results'[1].productBreakdown[i].name] = FilteredNames(input')]_vars

\* two filtered lines of different value and margin have just changed places
\* under positive costs and rates
C11_Witness ==
    /\ op = "reorder"
    /\ Len(R.productBreakdown) = 2
    /\ R.productBreakdown[1].invoicePrice # R.productBreakdown[2].invoicePrice
    /\ R.productBreakdown[1].margin # R.productBreakdown[2].margin
    /\ R.productBreakdown[1].quantity # R.productBreakdown[2].quantity
    /\ R.productBreakdown[1].name = GRAIN_PRODUCTS[2]
    /\ Gt(R.marginAmount, Zero)
    /\ Gt(R.totalProcurementCost, R.rawMaterialsCost)

\* the filtered lines of the input, in input order
FilteredLines(inp) == SelectSeq(inp.products, FilteredLine)

(* C12: for any two filtered lines i and j of one returned value,          *)
(* invoicePrice_i * unitPrice_j = invoicePrice_j * unitPrice_i, and the    *)
(* same for distributorPrice and retailerPrice; so two lines of equal      *)
(* unitPrice have equal per-unit prices, whatever their margins.           *)
C12_PricesFollowUnitPrice ==
    Done =>
        LET f == FilteredLines(input)
            b == R.productBreakdown
        IN  /\ Len(b) = Len(f)
            /\ \A i, j \in 1..Len(f) :
                  /\ Mul(b[i].invoicePrice, Num(f[j].unitPrice))
                        = Mul(b[j].invoicePrice, Num(f[i].unitPrice))
                  /\ Mul(b[i].distributorPrice, Num(f[j].unitPrice))
                        = Mul(b[j].distributorPrice, Num(f[i].unitPrice))
                  /\ Mul(b[i].retailerPrice, Num(f[j].unitPrice))
                        = Mul(b[j].retailerPrice, Num(f[i].unitPrice))
                  /\ f[i].unitPrice = f[j].unitPrice =>
                        /\ b[i].invoicePrice = b[j].invoicePrice
                        /\ b[i].distributorPrice = b[j].distributorPrice
                        /\ b[i].retailerPrice = b[j].retailerPrice

\* two filtered lines of equal positive unit price, of different margin and
\* quantity, with positive per-unit prices
C12_Witness ==
    /\ Done
    /\ Len(FilteredLines(input)) = 2
    /\ FilteredLines(input)[1].unitPrice = FilteredLines(input)[2].unitPrice
    /\ FilteredLines(input)[1].unitPrice > 0
    /\ FilteredLines(input)[1].margin # FilteredLines(input)[2].margin
    /\ FilteredLines(input)[1].quantity # FilteredLines(input)[2].quantity
    /\ Gt(R.productBreakdown[1].invoicePrice, Zero)
    /\ Gt(R.productBreakdown[1].retailerPrice,
          R.productBreakdown[1].distributorPrice)

(* C13: calling the engine twice on the same input object returns equal    *)
(* values in every field, whatever the overlap of the two calls, and from  *)
(* the call on, during it and after it, the input object (its products     *)
(* list and every element) equals what it was when the call was made.      *)
C13_DeterministicNoMutation ==
    /\ \A c, d \in Callers :
          (frames[c].pc = "done" /\ frames[d].pc = "done"
              /\ frames[c].ref = frames[d].ref) =>
                frames[c].result = frames[d].result
    /\ \A c \in Callers :
          frames[c].pc # "idle" => objects[frames[c].ref] = frames[c].given

\* two calls on one object that holds a filtered and an excluded line have
\* both returned
C13_Witness ==
    /\ frames[1].pc = "done" /\ frames[2].pc = "done"
    /\ frames[1].ref = frames[2].ref
    /\ Len(frames[1].given.products) = 2
    /\ Len(frames[1].result[1].productBreakdown) = 1
    /\ Gt(frames[1].result[1].marginAmount, Zero)
    /\ Gt(frames[1].result[1].importerTotalCost, frames[1].result[1].invoiceValue)

(* C14: productBreakdown has exactly one entry per filtered line of the    *)
(* input, in input order, and no entry for any other line; each entry      *)
(* carries the line's name, quantity, unitPrice (as unitCost) and margin   *)
(* unchanged.                                                              *)
C14_BreakdownEchoesLines ==
    Done =>
        LET f == FilteredLines(input)
            b == R.productBreakdown
        IN  /\ Len(b) = Len(f)
            /\ \A i \in 1..Len(f) :
                  /\ b[i].name = f[i].name
                  /\ b[i].quantity = f[i].quantity
                  /\ b[i].unitCost = f[i].unitPrice
                  /\ b[i].margin = f[i].margin
            /\ \A k \in 1..Len(input.products) :
                  ~FilteredLine(input.products[k]) =>
                      \A i \in 1..Len(b) : b[i].name # input.products[k].name

\* an excluded line of positive price and quantity comes before a filtered
\* line whose quantity, unit price and margin are three different numbers
C14_Witness ==
    /\ Done
    /\ Len(input.products) = 2
    /\ ~FilteredLine(input.products[1])
    /\ input.products[1].quantity > 0 /\ input.products[1].unitPrice > 0
    /\ FilteredLine(input.products[2])
    /\ Cardinality({input.products[2].quantity, input.products[2].unitPrice,
                    input.products[2].margin}) = 3
    /\ Len(R.productBreakdown) = 1
    /\ R.productBreakdown[1].name = input.products[2].name

\* every origin and destination cost, the export duty rate and the two
\* tier margins of inp are 0
NoCostsNoRates(inp) ==
    /\ OriginCostsOf(inp) = 0 /\ DestinationCostsOf(inp) = 0
    /\ \A f \in CostFields : inp[f] >= 0
    /\ inp.exportDutyRate = 0
    /\ inp.distributorMargin = 0
    /\ inp.retailerMargin = 0

(* C15: for an input with one filtered line of quantity q > 0, unit price  *)
(* p >= 0 and margin m >= 0, every cost 0 and exportDutyRate =             *)
(* distributorMargin = retailerMargin = 0: rawMaterialsCost =              *)
(* totalProcurementCost = q * p, marginAmount = q * p * m / 100,           *)
(* invoiceValue = importerTotalCost = distributorPrice = retailerPrice =   *)
(* q * p * (1 + m / 100), and the only breakdown entry has invoicePrice =  *)
(* p * (1 + m / 100); q = 10, p = 100, m = 15 gives 1000, 150, 1150, 115.  *)
C15_SingleProduct ==
    (Done /\ Len(FilteredLines(input)) = 1 /\ NoCostsNoRates(input)) =>
        LET l == FilteredLines(input)[1]
            qp == Num(l.quantity * l.unitPrice)
            total == Norm(l.quantity * l.unitPrice * (100 + l.margin), 100)
        IN  /\ R.rawMaterialsCost = qp
            /\ R.totalProcurementCost = qp
            /\ R.marginAmount = Norm(l.quantity * l.unitPrice * l.margin, 100)
            /\ R.invoiceValue = total
            /\ R.importerTotalCost = total
            /\ R.distributorPrice = total
            /\ R.retailerPrice = total
            /\ Len(R.productBreakdown) = 1
            /\ R.productBreakdown[1].invoicePrice
                  = Norm(l.unitPrice * (100 + l.margin), 100)
            /\ (l.quantity = 10 /\ l.unitPrice = 100 /\ l.margin = 15) =>
                  /\ R.rawMaterialsCost = Num(1000)
                  /\ R.marginAmount = Num(150)
                  /\ R.invoiceValue = Num(1150)
                  /\ R.productBreakdown[1].invoicePrice = Num(115)

\* the input of one line with q = 10, p = 100, m = 15 has been calculated
C15_Witness ==
    /\ Done
    /\ NoCostsNoRates(input)
    /\ Len(input.products) = 1
    /\ input.products[1].included
    /\ input.products[1].quantity = 10
    /\ input.products[1].unitPrice = 100
    /\ input.products[1].margin = 15
    /\ R.retailerPrice = Num(1150)

\* inp has exactly two filtered lines, of equal positive value
TwoEqualShares(inp) ==
    /\ Len(FilteredLines(inp)) = 2
    /\ FilteredLines(inp)[1].quantity * FilteredLines(inp)[1].unitPrice
          = FilteredLines(inp)[2].quantity * FilteredLines(inp)[2].unitPrice
    /\ FilteredLines(inp)[1].quantity * FilteredLines(inp)[1].unitPrice > 0

(* C16: every invocation on an input with two filtered lines of equal      *)
(* positive quantity * unitPrice and margins m1, m2 returns marginAmount = *)
(* totalProcurementCost * (m1 + m2) / 200, which is the margin amount of   *)
(* a weighted margin of (m1 + m2) / 2; and an invocation on that input     *)
(* with the two margins exchanged returns the same value in every scalar   *)
(* field.                                                                  *)
C16_EqualShares ==
    [][(results' # <<>> /\ TwoEqualShares(input')) =>
          /\ results'[1].marginAmount
                = Mul(results'[1].totalProcurementCost,
                      Norm(FilteredLines(input')[1].margin
                             + FilteredLines(input')[2].margin, 200))
          /\ (Done /\ input' = MarginsSwapped(input)) =>
                Scalars(results'[1]) = Scalars(R)]_vars

\* two lines of equal value, different quantity and different margin have
\* had their margins exchanged, under positive costs
C16_Witness ==
    /\ op = "swapmargins"
    /\ TwoEqualShares(input)
    /\ input.products[1].quantity # input.products[2].quantity
    /\ input.products[1].margin # input.products[2].margin
    /\ Gt(R.marginAmount, Zero)
    /\ Gt(R.totalProcurementCost, R.rawMaterialsCost)

\* every line of inp has quantity 0 or is not included
AllLinesOut(inp) ==
    \A i \in 1..Len(inp.products) :
        inp.products[i].quantity = 0 \/ inp.products[i].included = FALSE

(* C17: for all inputs the returned transportCost, packingCost,            *)
(* fumigationCost, customsClearanceCost, freightCost, importDutyCost,      *)
(* destinationCustomsClearance and destinationTransport equal the input's  *)
(* fields of the same name (importDuty for importDutyCost); and when every *)
(* line has quantity 0 or included = false, rawMaterialsCost and           *)
(* marginAmount are 0 and productBreakdown is empty.                       *)
C17_EchoedCosts ==
    Done =>
        /\ R.transportCost = Num(input.transportCost)
        /\ R.packingCost = Num(input.packingCost)
        /\ R.fumigationCost = Num(input.fumigationCost)
        /\ R.customsClearanceCost = Num(input.customsClearanceCost)
        /\ R.freightCost = Num(input.freightCost)
        /\ R.importDutyCost = Num(input.importDuty)
        /\ R.destinationCustomsClearance = Num(input.destinationCustomsClearance)
        /\ R.destinationTransport = Num(input.destinationTransport)
        /\ AllLinesOut(input) =>
              /\ R.rawMaterialsCost = Zero
              /\ R.marginAmount = Zero
              /\ R.productBreakdown = <<>>

\* a line of quantity 0 and an unchecked line, both of positive price, under
\* eight positive costs no two of which are equal
C17_Witness ==
    /\ Done
    /\ Len(input.products) = 2
    /\ AllLinesOut(input)
    /\ \E i, j \in 1..2 :
          /\ input.products[i].quantity = 0 /\ input.products[i].included
          /\ input.products[j].quantity > 0 /\ ~input.products[j].included
    /\ \A i \in 1..2 : input.products[i].unitPrice > 0
    /\ Cardinality({input[f] : f \in CostFields} \cup {0}) = 9
    /\ R.importDutyCost # R.freightCost

\* some percentage of inp is above 100
HasLargePercentage(inp) ==
    \/ inp.exportDutyRate > 100
    \/ inp.distributorMargin > 100
    \/ inp.retailerMargin > 100
    \/ \E i \in 1..Len(inp.products) :
          FilteredLine(inp.products[i]) /\ inp.products[i].margin > 100

(* C18: for every input with an exportDutyRate, distributorMargin,         *)
(* retailerMargin or filtered line margin above 100, the percentages enter *)
(* the stages at their full value: marginAmount = totalProcurementCost *   *)
(* weighted margin / 100, exportDutyAmount = (totalProcurementCost +       *)
(* marginAmount) * exportDutyRate / 100, distributorPrice =                *)
(* importerTotalCost * (1 + distributorMargin / 100), retailerPrice =      *)
(* distributorPrice * (1 + retailerMargin / 100); distributorMargin = 200  *)
(* gives distributorPrice = 3 * importerTotalCost.                         *)
C18_PercentagesAboveHundred ==
    (Done /\ HasLargePercentage(input)) =>
        /\ R.marginAmount
              = Mul(R.totalProcurementCost, Div(WeightedMarginOf(input), Hundred))
        /\ R.exportDutyAmount
              = Div(Mul(Add(R.totalProcurementCost, R.marginAmount),
                        Num(input.exportDutyRate)), Hundred)
        /\ R.invoiceValue
              = Add(Add(R.totalProcurementCost, R.marginAmount), R.exportDutyAmount)
        /\ R.distributorPrice
              = Div(Mul(R.importerTotalCost, Num(100 + input.distributorMargin)),
                    Hundred)
        /\ R.retailerPrice
              = Div(Mul(R.distributorPrice, Num(100 + input.retailerMargin)),
                    Hundred)
        /\ input.distributorMargin = 200 =>
              R.distributorPrice = Mul(Num(3), R.importerTotalCost)

\* every percentage is above 100: two line margins, the export duty rate,
\* the distributor margin (200) and the retailer margin, on positive costs
C18_Witness ==
    /\ Done
    /\ Len(input.products) = 2
    /\ \A i \in 1..2 : FilteredLine(input.products[i])
                          /\ input.products[i].margin > 100
    /\ input.products[1].margin # input.products[2].margin
    /\ input.exportDutyRate > 100
    /\ input.distributorMargin = 200
    /\ input.retailerMargin > 100
    /\ OriginCostsOf(input) > 0
    /\ Gt(R.marginAmount, R.totalProcurementCost)
    /\ Gt(R.exportDutyAmount, Add(R.totalProcurementCost, R.marginAmount))
    /\ R.distributorPrice = Mul(Num(3), R.importerTotalCost)
    /\ Gt(R.retailerPrice, Mul(Num(2), R.distributorPrice))

\* the fields of CalculationResults
ResultFields ==
    {"rawMaterialsCost", "transportCost", "packingCost", "fumigationCost",
     "customsClearanceCost", "otherCosts", "totalProcurementCost",
     "marginAmount", "exportDutyAmount", "invoiceValue", "freightCost",
     "importDutyCost", "destinationCustomsClearance", "destinationTransport",
     "otherLogisticsCosts", "totalLogisticsCost", "importerTotalCost",
     "distributorPrice", "retailerPrice", "totalMarginPercentage",
     "productBreakdown"}

\* the fields of an entry of productBreakdown
EntryFields ==
    {"name", "quantity", "unitCost", "margin", "invoicePrice",
     "distributorPrice", "retailerPrice"}

(* C19: for every input, also with negative quantities, prices, margins,   *)
(* costs or percentages, the engine returns a value with every field of    *)
(* CalculationResults, every number in it a finite number (no division by  *)
(* zero has produced Infinity or NaN in place of a result), and every      *)
(* breakdown entry complete.                                               *)
C19_TotalOnSignedInputs ==
    Done =>
        /\ DOMAIN R = ResultFields
        /\ AllFinite(R)
        /\ \A i \in 1..Len(R.productBreakdown) :
              DOMAIN R.productBreakdown[i] = EntryFields

\* a negative price on a filtered line cancels the value of the other line,
\* negative origin costs and negative percentages: the returned totals are
\* negative
C19_Witness ==
    /\ Done
    /\ Len(FilteredLines(input)) = 2
    /\ \E i \in 1..2 : input.products[i].unitPrice < 0
    /\ TotalValueOf(input) = 0
    /\ OriginCostsOf(input) < 0
    /\ input.exportDutyRate < 0
    /\ input.distributorMargin < -100
    /\ input.retailerMargin < 0
    /\ Gt(Zero, R.totalProcurementCost)
    /\ Gt(Zero, R.importerTotalCost)
    /\ Gt(R.distributorPrice, Zero)

(* C20: under every interleaving of the stages of several invocations, an  *)
(* invocation that has returned has returned exactly the value the engine  *)
(* returns for its own input when it runs alone.                           *)
C20_NoInterference ==
    \A c \in Callers :
        frames[c].pc = "done" =>
            frames[c].result = <<calculateEstimate(frames[c].given)>>

\* an invocation has returned while another, on a different input, is half
\* way through its body, and a third value would be returned for that input
C20_Witness ==
    /\ \E c, d \in Callers :
          /\ frames[c].pc = "done"
          /\ frames[d].pc = "invoice"
          /\ frames[c].ref # frames[d].ref
          /\ frames[c].given # frames[d].given
          /\ frames[c].result # <<calculateEstimate(frames[d].given)>>
          /\ frames[d].totalProcurementCost # frames[c].totalProcurementCost
          /\ Len(frames[c].result[1].productBreakdown) = 1

\* the number a stored decimal text stands for
NumberOf(text) == CHOOSE n \in Numerals : ToString(n) = text

\* the engine input made of the input fields of the stored record e
RecordInput(e) ==
    [products |-> e.products,
     transportCost |-> NumberOf(e.transportCost),
     packingCost |-> NumberOf(e.packingCost),
     fumigationCost |-> NumberOf(e.fumigationCost),
     customsClearanceCost |-> NumberOf(e.customsClearanceCost),
     exportDutyRate |-> NumberOf(e.exportDutyRate),
     freightCost |-> NumberOf(e.freightCost),
     importDuty |-> NumberOf(e.importDuty),
     destinationCustomsClearance |-> NumberOf(e.destinationCustomsClearance),
     destinationTransport |-> NumberOf(e.destinationTransport),
     distributorMargin |-> NumberOf(e.distributorMargin),
     retailerMargin |-> NumberOf(e.retailerMargin)]

(* C21: after any sequence of form edits, Calculate, Reset and Save, every *)
(* record in the store carries calculationResults, and they are exactly    *)
(* calculateEstimate applied to the input fields of that same record.      *)
C21_SavedResultsMatchInput ==
    \A id \in DOMAIN estimates :
        estimates[id].calculationResults
            = <<calculateEstimate(RecordInput(estimates[id]))>>

\* some line of the product list has a quantity below zero
HasNegativeQuantity(products) ==
    \E i \in 1..Len(products) : products[i].quantity < 0

(* C22: a negative quantity is rejected by validation before the engine is *)
(* invoked and before anything is stored: calculateResults never runs the  *)
(* engine on a form holding a line with quantity < 0, and no record with   *)
(* such a line is ever in the store.                                       *)
C22_NegativeQuantityRejected ==
    /\ op = "calculateResults" => ~HasNegativeQuantity(input.products)
    /\ \A id \in DOMAIN estimates :
           ~HasNegativeQuantity(estimates[id].products)

(* C23: POST /api/estimates/calculate answers with the CalculationResults *)
(* the engine computes from the request body, field for field.            *)
C23_CalculateRouteRunsEngine ==
    [][\A body \in CalculateBodies :
           PostCalculate(body) => reply'.body = <<calculateEstimate(body)>>]_vars

\* the status tags the schema documents
StatusTags == {"draft", "completed", "archived"}

(* C24: in every reachable state of the record store, each stored record's *)
(* status is one of draft, completed, archived, after any create, update   *)
(* and duplicate requests that pass request validation.                    *)
C24_StatusIsATag ==
    \A id \in DOMAIN estimates : estimates[id].status \in StatusTags

\* list holds exactly the stored records whose identifiers are ids, each
\* once, in strictly descending identifier order
IsListingOf(list, ids) ==
    /\ Len(list) = Cardinality(ids)
    /\ \A i \in 1..Len(list) :
           list[i].id \in ids /\ list[i] = estimates[list[i].id]
    /\ \A i, j \in 1..Len(list) : i < j => list[i].id > list[j].id

(* C25: after any creates, updates and deletes, getAllEstimates returns    *)
(* exactly the stored records, each once, in strictly descending id order, *)
(* and getEstimatesByStatus(s) exactly those whose status equals s, in the *)
(* same order.                                                             *)
C25_Listings ==
    /\ IsListingOf(getAllEstimates, DOMAIN estimates)
    /\ \A status \in StatusParams :
           IsListingOf(getEstimatesByStatus(status),
                       {id \in DOMAIN estimates : estimates[id].status = status})

\* both listings were answered from a store of two records, one updated
C25_Witness ==
    /\ reply # <<>>
    /\ reply.route = "GET /api/estimates/status/:status"
    /\ Len(reply.body) = 1
    /\ reply.body = getEstimatesByStatus("archived")
    /\ Len(getAllEstimates) = 2
    /\ getAllEstimates[1].id = 2

\* the lower-case and upper-case form of the letters a-z in use
CasePairs ==
    {<<"a", "A">>, <<"b", "B">>, <<"c", "C">>, <<"o", "O">>, <<"p", "P">>,
     <<"y", "Y">>, <<"s", "S">>}

InCase(c, k) ==
    IF \E p \in CasePairs : c \in {p[1], p[2]}
    THEN (CHOOSE p \in CasePairs : c \in {p[1], p[2]})[k]
    ELSE c

\* the text with every letter a-z in upper case, any other character as
\* it is
Fold(text) == [i \in 1..Len(text) |-> InCase(text[i], 2)]

\* the texts that differ from text in the case of letters only
CaseVariants(text) ==
    {[i \in 1..Len(text) |-> InCase(text[i], IF up[i] THEN 2 ELSE 1)] :
         up \in [1..Len(text) -> BOOLEAN]}

\* part occurs in text, letters compared without regard to case
ContainsFolded(text, part) ==
    \E i, j \in 0..Len(text) :
        /\ i <= j
        /\ [k \in 1..(j - i) |-> Fold(text)[i + k]] = Fold(part)

\* String.prototype.toUpperCase on one character: one or two characters
UpperCaseOf(c) == IF c = SharpS THEN <<"S", "S">> ELSE <<InCase(c, 2)>>

\* String.prototype.toUpperCase
RECURSIVE toUpperCase(_)
toUpperCase(text) ==
    IF text = <<>> THEN <<>>
    ELSE UpperCaseOf(Head(text)) \o toUpperCase(Tail(text))

(* C26, as stated: searchEstimates(query) returns the stored records whose *)
(* containerId or destination contains the query case-insensitively, in   *)
(* descending id order, and putting the query into upper case or into     *)
(* lower case never changes the result.                                   *)
C26_SearchAnyCaseChange ==
    \A q \in Queries :
        /\ IsListingOf(searchEstimates(q),
                       {id \in DOMAIN estimates :
                            \/ ContainsFolded(estimates[id].containerId, q)
                            \/ ContainsFolded(estimates[id].destination, q)})
        /\ searchEstimates(toUpperCase(q)) = searchEstimates(q)
        /\ searchEstimates(toLowerCase(q)) = searchEstimates(q)

(* C26, amended: searchEstimates(query) returns exactly the stored records *)
(* whose containerId or destination contains the query, in descending id   *)
(* order, where the letters a-z and A-Z are compared without regard to     *)
(* case and every other character as it is; the same holds of every query *)
(* that differs from it in the case of such letters only.                  *)
C26_Search ==
    \A q \in Queries : \A variant \in CaseVariants(q) :
        IsListingOf(searchEstimates(variant),
                    {id \in DOMAIN estimates :
                         \/ ContainsFolded(estimates[id].containerId, q)
                         \/ ContainsFolded(estimates[id].destination, q)})

\* a search was answered with one of two stored records, which holds the
\* query in another case than the query's own
C26_Witness ==
    /\ reply # <<>>
    /\ reply.route = "GET /api/estimates/search"
    /\ reply.body = searchEstimates(<<"A", "B">>)
    /\ Len(reply.body) = 1
    /\ Cardinality(DOMAIN estimates) = 2
    /\ ~includes(reply.body[1].containerId, <<"A", "B">>)
    /\ ~includes(reply.body[1].destination, <<"A", "B">>)

\* the store holds what it held before the step
StoreUnchanged == estimates' = estimates /\ currentId' = currentId

\* the storage methods report that no record is stored under id, and
\* leave the map as it is
StorageReportsMissing(id) ==
    /\ getEstimate(id) = <<>>
    /\ \A body \in IdPatchBodies :
           updateEstimate(id, Parsed(body)) = [map |-> estimates, returns |-> <<>>]
    /\ deleteEstimate(id) = [map |-> estimates, returns |-> FALSE]

\* the GET, DELETE and duplicate routes answer 404 for the identifier and
\* change nothing
RoutesAnswerNotFound(idText) ==
    /\ GetEstimate(idText) => reply'.status = 404 /\ StoreUnchanged
    /\ DeleteEstimate(idText) => reply'.status = 404 /\ StoreUnchanged
    /\ DuplicateRead(idText) =>
           reply'.status = 404 /\ StoreUnchanged /\ pending' = pending

\* the identifiers among the :id parameters that have no stored record
MissingIdTexts ==
    {idText \in IdTexts :
         parseInt(idText) # <<>> /\ parseInt(idText)[1] \notin DOMAIN estimates}

(* C27, as stated: for an identifier with no stored record, getEstimate    *)
(* and updateEstimate return undefined, deleteEstimate returns false, the  *)
(* GET, PATCH, DELETE and duplicate routes answer 404, and the store is    *)
(* left unchanged.                                                         *)
C27_NotFoundAlways404 ==
    [][\A idText \in MissingIdTexts :
           /\ StorageReportsMissing(parseInt(idText)[1])
           /\ RoutesAnswerNotFound(idText)
           /\ \A body \in IdPatchBodies :
                  PatchEstimate(idText, body) =>
                      reply'.status = 404 /\ StoreUnchanged]_vars

(* C27, amended: for an identifier with no stored record, getEstimate and  *)
(* updateEstimate return undefined, deleteEstimate returns false, the GET, *)
(* DELETE and duplicate routes answer 404, the PATCH route answers 404     *)
(* when its body passes updateEstimateSchema and 400 when it does not,     *)
(* and the store is left unchanged in every one of these cases.            *)
C27_NotFound ==
    [][\A idText \in MissingIdTexts :
           /\ StorageReportsMissing(parseInt(idText)[1])
           /\ RoutesAnswerNotFound(idText)
           /\ \A body \in IdPatchBodies :
                  PatchEstimate(idText, body) =>
                      /\ reply'.status =
                             IF updateEstimateSchemaAccepts(body) THEN 404 ELSE 400
                      /\ StoreUnchanged]_vars

\* PATCH was answered 404 while the first record was deleted and the
\* second stored
C27_Witness ==
    /\ reply # <<>>
    /\ reply.route = "PATCH /api/estimates/:id"
    /\ reply.status = 404
    /\ DOMAIN estimates = {2}

\* a <= b, for numbers
Le(a, b) == IsFinite(a) /\ IsFinite(b) /\ a[1] * b[2] <= b[1] * a[2]

\* every quantity, price, cost and percentage of the input is >= 0
NonNegativeInput(inp) ==
    /\ \A i \in 1..Len(inp.products) :
           /\ inp.products[i].quantity >= 0
           /\ inp.products[i].unitPrice >= 0
           /\ inp.products[i].margin >= 0
    /\ \A f \in DOMAIN inp \ {"products"} : inp[f] >= 0

(* C28: tier monotonicity.  For every input whose quantities, prices,      *)
(* costs and percentages are all >= 0, the results satisfy                 *)
(* 0 <= rawMaterialsCost <= totalProcurementCost <= invoiceValue           *)
(*   <= importerTotalCost <= distributorPrice <= retailerPrice.            *)
C28_TierMonotonicity ==
    (Done /\ NonNegativeInput(input)) =>
        /\ Le(Zero, R.rawMaterialsCost)
        /\ Le(R.rawMaterialsCost, R.totalProcurementCost)
        /\ Le(R.totalProcurementCost, R.invoiceValue)
        /\ Le(R.invoiceValue, R.importerTotalCost)
        /\ Le(R.importerTotalCost, R.distributorPrice)
        /\ Le(R.distributorPrice, R.retailerPrice)

\* results of a non-negative input in which every tier is strictly above
\* the one before
C28_Witness ==
    /\ Done
    /\ NonNegativeInput(input)
    /\ Gt(R.rawMaterialsCost, Zero)
    /\ Gt(R.totalProcurementCost, R.rawMaterialsCost)
    /\ Gt(R.invoiceValue, R.totalProcurementCost)
    /\ Gt(R.importerTotalCost, R.invoiceValue)
    /\ Gt(R.distributorPrice, R.importerTotalCost)
    /\ Gt(R.retailerPrice, R.distributorPrice)

\* the step completes a create: POST /api/estimates answered 201, or the
\* second half of a duplicate
CreateStep ==
    \/ \E body \in IdPostBodies : PostEstimate(body) /\ reply'.status = 201
    \/ \E original \in pending : DuplicateCreate(original)

\* what every step does to the identifiers
IdsStep ==
    /\ \A id \in DOMAIN estimates' : estimates'[id].id = id
    /\ DOMAIN estimates' \ DOMAIN estimates # {} => CreateStep
    /\ CreateStep =>
           LET new == reply'.body[1].id IN
           /\ \A id \in DOMAIN estimates : new > id
           /\ \A original \in pending : new > original.id
           /\ DOMAIN estimates' = DOMAIN estimates \cup {new}
           /\ estimates'[new] = reply'.body[1]
           /\ \A id \in DOMAIN estimates : estimates'[id] = estimates[id]

\* once the record of id is deleted, no record is stored under id again
NeverReused(id) ==
    [](id \in DOMAIN estimates
         => [](id \notin DOMAIN estimates => [](id \notin DOMAIN estimates)))

C30_DuplicateCopies ==
    [][\A original \in pending :
           DuplicateCreate(original) =>
               LET new == reply'.body[1] IN
               /\ new.id \notin DOMAIN estimates
               /\ DOMAIN estimates' = DOMAIN estimates \cup {new.id}
               /\ estimates'[new.id] = new
               /\ new.containerId = original.containerId \o CopySuffix
               /\ new.status = "draft"
               /\ DOMAIN new = DOMAIN original
               /\ \A f \in DOMAIN original \ {"id", "containerId", "status"} :
                      new[f] = original[f]
               /\ \A id \in DOMAIN estimates : estimates'[id] = estimates[id]]_vars

=============================================================================
